---- MODULE Spec2Model ----
(***************************************************************************)
(* Signal pipeline of the trading dashboard: trend classification,         *)
(* candlestick patterns, the three-stage signal decision of                *)
(* signals.generate_signal, the risk/reward arithmetic of                  *)
(* signals.calculate_risk_reward, the position sizing of                   *)
(* portfolio_manager.calculate_position_size and calculate_max_shares, and *)
(* the EMA and RSI recursions of indicators.py.                            *)
(*                                                                         *)
(* A DataFrame is a record [columns, rows]: the set of column names and    *)
(* the sequence of rows, each row a function from the column names to the  *)
(* cell values.  Prices are integers.  pandas' NaN is the value NaN.  A    *)
(* Python None is the empty sequence and a present value x is <<x>>.       *)
(* The percentage ema_20_distance is kept as an exact fraction [num, den]. *)
(***************************************************************************)
EXTENDS Integers, Sequences, FiniteSets, TLC

VARIABLES
    pc,                 \* position of the modelled run
    df_main,            \* generate_signal: main timeframe DataFrame
    df_higher,          \* generate_signal: higher timeframe DataFrame
    result,             \* generate_signal: the returned dict
    df,                 \* calculate_risk_reward: OHLC DataFrame
    is_long,            \* calculate_risk_reward: direction
    lookback,           \* calculate_risk_reward: bars searched for the stop
    rr_ratio,           \* calculate_risk_reward: target ratio
    risk_reward,        \* calculate_risk_reward: the returned dict (None before)
    account_balance,    \* calculate_position_size: total assets
    risk_percent,       \* calculate_position_size: risk in percent points (k for k/100)
    entry_price,        \* calculate_position_size: entry
    stop_loss_price,    \* calculate_position_size: stop
    position_size,      \* calculate_position_size: the returned share count
    cash,               \* calculate_max_shares: available cash
    share_price,        \* calculate_max_shares: price of one share
    unit,               \* calculate_max_shares: lot size
    max_shares,         \* calculate_max_shares: the returned share count
    trend_df,           \* analyze_trend: the DataFrame
    trend_state,        \* analyze_trend: the returned TrendState (None before)
    prev_bar,           \* is_engulfing: the previous row
    curr_bar,           \* is_pin_bar, is_engulfing: the current row
    pin_label,          \* is_pin_bar: the returned label (None before)
    engulfing_label,    \* is_engulfing: the returned label (None before)
    ohlc,               \* detect_patterns: the OHLC DataFrame
    labelled,           \* detect_patterns: the returned DataFrame (None before)
    closes,             \* calculate_ema, calculate_rsi: the close series
    period,             \* calculate_ema: the span
    ema_series,         \* calculate_ema: the returned series (None before)
    rsi_series,         \* calculate_rsi: the returned series (None before)
    call,               \* a core operation called on a caller's frames
    frames,             \* the call: the DataFrame objects, by reference
    arg_main,           \* the call: the reference the caller holds to its (main) frame
    arg_higher,         \* the call: the reference to the caller's higher frame (0: none)
    local_df,           \* the call: the reference the callee's name df is bound to (0: none)
    loop_i,             \* the call: the row the loop of detect_patterns is at
    ret,                \* the call: a returned frame's reference or the returned dict (None before)
    heap,               \* the result dicts created so far, by reference
    evals,              \* per ticker: the evaluation of generate_signal
    now,                \* datetime.now(), in minutes since Monday 00:00
    last_signals,       \* st.session_state.last_signals
    last_notification_time, \* st.session_state.last_notification_time, None while the key is missing
    history,            \* NotificationManager.history, newest first
    is_new_signal,      \* what check_and_notify last returned
    shown,              \* what get_history last returned
    clock,              \* datetime.now() as the scheduler reads it, in minutes since Monday 00:00
    last_morning_scan,  \* st.session_state.last_morning_scan (None while missing)
    last_afternoon_scan, \* st.session_state.last_afternoon_scan (None while missing)
    scans,              \* the scans started so far, oldest first
    results,            \* what check_and_run_scheduled_tasks last returned
    task_results,       \* the results dict of the call under way (None outside a call)
    sell_df,            \* calculate_sell_score: what fetch_stock_data returned
    sell_entry_price,   \* calculate_sell_score: entry_price
    sell_stop_loss,     \* calculate_sell_score: stop_loss, 0 when not set
    sell_result,        \* calculate_sell_score: the returned dict (None before)
    fetched_15m,        \* the main (15 minute) bars fetched for a ticker
    fetched_4h,         \* the higher (4 hour) bars fetched for the ticker
    monitor_signal,     \* monitor.check_signal: the returned dict (None before)
    dashboard_signal,   \* app.analyze_ticker: the returned dict (None before)
    portfolio,          \* st.session_state.portfolio, the list of holdings
    portfolio_file,     \* the holdings last saved to portfolio.json
    db_call,            \* the last call on the portfolio and its arguments (None before)
    db_calls            \* how many calls were made on the portfolio

vars == <<pc, df_main, df_higher, result, df, is_long, lookback, rr_ratio,
          risk_reward, account_balance, risk_percent, entry_price,
          stop_loss_price, position_size, cash, share_price, unit, max_shares,
          trend_df, trend_state, prev_bar, curr_bar, pin_label,
          engulfing_label, ohlc, labelled, closes, period, ema_series,
          rsi_series,
          call, frames, arg_main, arg_higher, local_df, loop_i, ret,
          heap, evals,
          now, last_signals, last_notification_time, history, is_new_signal, shown,
          clock, last_morning_scan, last_afternoon_scan, scans, results,
          task_results,
          sell_df, sell_entry_price, sell_stop_loss, sell_result,
          fetched_15m, fetched_4h, monitor_signal, dashboard_signal,
          portfolio, portfolio_file, db_call, db_calls>>

signalVars == <<df_main, df_higher, result>>
rrVars == <<df, is_long, lookback, rr_ratio, risk_reward>>
sizeVars == <<account_balance, risk_percent, entry_price, stop_loss_price,
              position_size>>
sharesVars == <<cash, share_price, unit, max_shares>>
trendVars == <<trend_df, trend_state>>
barVars == <<prev_bar, curr_bar, pin_label, engulfing_label>>
patternVars == <<ohlc, labelled>>
seriesVars == <<closes, period, ema_series, rsi_series>>
\* the variables of the specifications of single functions
fnVars == <<sharesVars, trendVars, barVars, patternVars, seriesVars>>
earlyVars == <<signalVars, rrVars, sizeVars, fnVars>>
\* the variables of the specifications on calls, sessions and stores
callVars == <<call, frames, arg_main, arg_higher, local_df, loop_i, ret>>
evalVars == <<heap, evals>>
notifyVars == <<now, last_signals, last_notification_time, history, is_new_signal, shown>>
schedVars == <<clock, last_morning_scan, last_afternoon_scan, scans, results, task_results>>
sellVars == <<sell_df, sell_entry_price, sell_stop_loss, sell_result>>
monitorVars == <<fetched_15m, fetched_4h, monitor_signal, dashboard_signal>>
dbVars == <<portfolio, portfolio_file, db_call, db_calls>>
lateVars == <<callVars, evalVars, notifyVars, schedVars, sellVars, monitorVars, dbVars>>
\* the late variables a specification of one group leaves alone
exceptCallVars == <<earlyVars, evalVars, notifyVars, schedVars, sellVars, monitorVars, dbVars>>
exceptEvalVars == <<earlyVars, callVars, notifyVars, schedVars, sellVars, monitorVars, dbVars>>
exceptNotifyVars == <<earlyVars, callVars, evalVars, schedVars, sellVars, monitorVars, dbVars>>
exceptSchedVars == <<earlyVars, callVars, evalVars, notifyVars, sellVars, monitorVars, dbVars>>
exceptSellVars == <<earlyVars, callVars, evalVars, notifyVars, schedVars, monitorVars, dbVars>>
exceptMonitorVars == <<earlyVars, callVars, evalVars, notifyVars, schedVars, sellVars, dbVars>>
exceptDbVars == <<earlyVars, callVars, evalVars, notifyVars, schedVars, sellVars, monitorVars>>

----------------------------------------------------------------------------
(* Bounds of the model *)

\* longest main series
MaxLen == 2
\* lowest and highest price of a bar
MinPrice == 98
MaxPrice == 101

----------------------------------------------------------------------------
(* Values *)

NaN == -1
None == <<>>
Some(x) == <<x>>

Abs(x) == IF x < 0 THEN -x ELSE x
Max2(a, b) == IF a >= b THEN a ELSE b
Min2(a, b) == IF a <= b THEN a ELSE b
SetMin(S) == CHOOSE x \in S : \A y \in S : x <= y
SetMax(S) == CHOOSE x \in S : \A y \in S : x >= y

\* signals.TrendState
UPTREND == "uptrend"
DOWNTREND == "downtrend"
NEUTRAL == "neutral"

\* signals.SignalType
LONG == "long"
SHORT == "short"
NONE == "none"

\* the four trigger descriptions of check_trigger
LowerWickPinBar == "lower_wick_pin_bar"
BullishEngulfingBar == "bullish_engulfing_bar"
UpperWickPinBar == "upper_wick_pin_bar"
BearishEngulfingBar == "bearish_engulfing_bar"

\* the narrative lines of generate_signal; a line is <<mark, stage, text>>
\* with mark "check" for the lines starting with a checkmark
LineLongEnv == <<"check", "environment", "uptrend environment">>
LineShortEnv == <<"check", "environment", "downtrend environment">>
LineLongSetup == <<"check", "setup", "pullback zone">>
LineShortSetup == <<"check", "setup", "retracement zone">>
LineTrigger(desc) == <<"check", "trigger", desc>>
LineUnclear == <<"triangle", "environment", "trend unclear">>

\* DataFrame helpers
\* df.empty: one of the two axes has length 0
Empty(frame) == Len(frame.rows) = 0 \/ frame.columns = {}
Last(frame) == frame.rows[Len(frame.rows)]
\* Series.get(col, default)
Get(row, col, default) == IF col \in DOMAIN row THEN row[col] ELSE default

----------------------------------------------------------------------------
(* indicators.py *)

\* ((close - ema_20) / ema_20) * 100, as a fraction
Ema20Distance(close, ema_20) == [num |-> (close - ema_20) * 100, den |-> ema_20]

\* abs(ema_20_distance) <= threshold; ema_20 of positive prices is positive
is_near_ema20(row, threshold) ==
    LET d == row["ema_20_distance"]
    IN  d.den > 0 /\ Abs(d.num) <= threshold * d.den

RECURSIVE Pow(_, _)
Pow(b, n) == IF n = 0 THEN 1 ELSE b * Pow(b, n - 1)

\* an exact fraction is a record [num, den] with den > 0
Frac(n, d) == [num |-> n, den |-> d]
FracEq(x, y) == x.num * y.den = y.num * x.den

\* Series.ewm(span=span, adjust=False).mean(): y[0] = x[0] and
\* y[i] = a * x[i] + (1 - a) * y[i-1] with a = 2 / (span + 1).  The i-th
\* value (counted from 1) is EwmNum / (span + 1)^(i-1).
RECURSIVE EwmNum(_, _, _)
EwmNum(xs, span, i) ==
    IF i = 1 THEN xs[1]
    ELSE 2 * xs[i] * Pow(span + 1, i - 2) + (span - 1) * EwmNum(xs, span, i - 1)

ewm_mean(xs, span) ==
    [i \in 1..Len(xs) |-> Frac(EwmNum(xs, span, i), Pow(span + 1, i - 1))]

\* mutant: Wilder's smoothing, a = 1 / period
RECURSIVE WilderNum(_, _, _)
WilderNum(xs, span, i) ==
    IF i = 1 THEN xs[1]
    ELSE xs[i] * Pow(span, i - 2) + (span - 1) * WilderNum(xs, span, i - 1)

calculate_ema_wilder(series, period_arg) ==
    [i \in 1..Len(series) |->
        Frac(WilderNum(series, period_arg, i), Pow(period_arg, i - 1))]

calculate_ema(series, period_arg) == ewm_mean(series, period_arg)

\* a float of calculate_rsi: a fraction (kind "num"), infinity or NaN
Num(n, d) == [kind |-> "num", num |-> n, den |-> d]
Inf == [kind |-> "inf", num |-> 0, den |-> 1]
NaNFloat == [kind |-> "nan", num |-> 0, den |-> 1]

\* series.diff(), then gain = delta.where(delta > 0, 0.0) and
\* loss = (-delta).where(delta < 0, 0.0); the first delta is NaN, for which
\* both conditions are false
Gain(series) ==
    [i \in 1..Len(series) |->
        IF i > 1 /\ series[i] - series[i - 1] > 0 THEN series[i] - series[i - 1]
        ELSE 0]
Loss(series) ==
    [i \in 1..Len(series) |->
        IF i > 1 /\ series[i] - series[i - 1] < 0 THEN series[i - 1] - series[i]
        ELSE 0]

\* rs = avg_gain / avg_loss in floats: x / 0 is inf for x > 0 and 0 / 0 is NaN
Rs(avg_gain, avg_loss) ==
    IF avg_loss.num = 0
    THEN IF avg_gain.num = 0 THEN NaNFloat ELSE Inf
    ELSE Num(avg_gain.num * avg_loss.den, avg_gain.den * avg_loss.num)

\* 100 - (100 / (1 + rs)): NaN stays NaN, 100 / inf is 0
RsiOf(rs) ==
    CASE rs.kind = "nan" -> NaNFloat
      [] rs.kind = "inf" -> Num(100, 1)
      [] OTHER -> Num(100 * rs.num, rs.num + rs.den)

calculate_rsi(series, period_arg) ==
    LET avg_gain == ewm_mean(Gain(series), period_arg)
        avg_loss == ewm_mean(Loss(series), period_arg)
    IN  [i \in 1..Len(series) |-> RsiOf(Rs(avg_gain[i], avg_loss[i]))]

\* a cell of a DataFrame holding the fraction f: a whole value is the
\* integer itself, as the prices are
Cell(f) == IF f.num % f.den = 0 THEN f.num \div f.den ELSE f
FloatCell(x) == IF x.kind = "nan" THEN NaN ELSE Cell(Frac(x.num, x.den))

Ema20Period == 20
Ema200Period == 200
RsiPeriod == 14

\* the outcome of a call that raises an exception
Raised == "raised"

\* df['close']: the column, or KeyError when the frame has no such column,
\* with or without rows
CloseOf(frame) ==
    IF "close" \in frame.columns
    THEN [i \in 1..Len(frame.rows) |-> frame.rows[i]["close"]]
    ELSE Raised

\* add_indicators raises at its first df['close'], after the copy and before
\* any assignment, when the frame has no close column
add_indicators_raises(frame) == "close" \notin frame.columns

add_indicators(frame) ==
    IF add_indicators_raises(frame) THEN Raised ELSE
    LET ema_20 == calculate_ema(CloseOf(frame), Ema20Period)
        ema_200 == calculate_ema(CloseOf(frame), Ema200Period)
        rsi == calculate_rsi(CloseOf(frame), RsiPeriod)
    IN  [columns |-> frame.columns \cup {"ema_20", "ema_200", "rsi", "ema_20_distance"},
         rows |-> [i \in 1..Len(frame.rows) |->
                     ("ema_20" :> Cell(ema_20[i]))
                     @@ ("ema_200" :> Cell(ema_200[i]))
                     @@ ("rsi" :> FloatCell(rsi[i]))
                     @@ ("ema_20_distance" :>
                            Frac((frame.rows[i]["close"] * ema_20[i].den - ema_20[i].num) * 100,
                                 ema_20[i].num))
                     @@ frame.rows[i]]]

----------------------------------------------------------------------------
(* patterns.py *)

calculate_candle_metrics(row) ==
    [body |-> Abs(row["close"] - row["open"]),
     upper_wick |-> row["high"] - Max2(row["open"], row["close"]),
     lower_wick |-> Min2(row["open"], row["close"]) - row["low"],
     total_range |-> row["high"] - row["low"],
     is_bullish |-> row["close"] > row["open"],
     is_bearish |-> row["close"] < row["open"]]

\* mutant: a wick of exactly wick_ratio bodies is not long enough
is_pin_bar_strict(row, wick_ratio) ==
    LET m == calculate_candle_metrics(row)
    IN  IF m.body = 0 THEN "none"
        ELSE IF m.lower_wick > m.body * wick_ratio /\ 2 * m.upper_wick < m.body
             THEN "bullish_pin"
        ELSE IF m.upper_wick > m.body * wick_ratio /\ 2 * m.lower_wick < m.body
             THEN "bearish_pin"
        ELSE "none"

\* mutant: no test of the body, and a wick of half a body counts as small
is_pin_bar_doji(row, wick_ratio) ==
    LET m == calculate_candle_metrics(row)
    IN  IF m.lower_wick >= m.body * wick_ratio /\ 2 * m.upper_wick <= m.body
        THEN "bullish_pin"
        ELSE IF m.upper_wick >= m.body * wick_ratio /\ 2 * m.lower_wick <= m.body
             THEN "bearish_pin"
        ELSE "none"

\* mutant: the opposite wick is not looked at
is_pin_bar_any_opposite_wick(row, wick_ratio) ==
    LET m == calculate_candle_metrics(row)
    IN  IF m.body = 0 THEN "none"
        ELSE IF m.lower_wick >= m.body * wick_ratio THEN "bullish_pin"
        ELSE IF m.upper_wick >= m.body * wick_ratio THEN "bearish_pin"
        ELSE "none"

\* wick_ratio is 2.0; "wick < body * 0.5" is stated as 2 * wick < body
is_pin_bar(row, wick_ratio) ==
    LET m == calculate_candle_metrics(row)
    IN  IF m.body = 0 THEN "none"
        ELSE IF m.lower_wick >= m.body * wick_ratio /\ 2 * m.upper_wick < m.body
             THEN "bullish_pin"
        ELSE IF m.upper_wick >= m.body * wick_ratio /\ 2 * m.lower_wick < m.body
             THEN "bearish_pin"
        ELSE "none"

\* mutant: the current bar must contain the previous bar, wicks included
is_engulfing_with_wicks(current, previous) ==
    IF /\ previous["close"] < previous["open"]
       /\ current["close"] > current["open"]
       /\ current["low"] <= previous["low"]
       /\ current["high"] >= previous["high"]
    THEN "bullish_engulfing"
    ELSE IF /\ previous["close"] > previous["open"]
            /\ current["close"] < current["open"]
            /\ current["low"] <= previous["low"]
            /\ current["high"] >= previous["high"]
    THEN "bearish_engulfing"
    ELSE "none"

is_engulfing(current, previous) ==
    LET curr_body_high == Max2(current["open"], current["close"])
        curr_body_low == Min2(current["open"], current["close"])
        prev_body_high == Max2(previous["open"], previous["close"])
        prev_body_low == Min2(previous["open"], previous["close"])
    IN  IF /\ previous["close"] < previous["open"]
           /\ current["close"] > current["open"]
           /\ curr_body_low <= prev_body_low
           /\ curr_body_high >= prev_body_high
        THEN "bullish_engulfing"
        ELSE IF /\ previous["close"] > previous["open"]
                /\ current["close"] < current["open"]
                /\ curr_body_low <= prev_body_low
                /\ curr_body_high >= prev_body_high
        THEN "bearish_engulfing"
        ELSE "none"

WickRatio == 2

\* mutant: the loop starts at the first bar, whose previous bar iloc[-1] is
\* the last bar of the frame
detect_patterns_from_first_bar(frame) ==
    [columns |-> frame.columns \cup {"pin_bar", "engulfing"},
     rows |-> [i \in 1..Len(frame.rows) |->
                 ("pin_bar" :> is_pin_bar(frame.rows[i], WickRatio))
                 @@ ("engulfing" :>
                        is_engulfing(frame.rows[i],
                                     frame.rows[IF i = 1 THEN Len(frame.rows)
                                                ELSE i - 1]))
                 @@ frame.rows[i]]]

detect_patterns(frame) ==
    [columns |-> frame.columns \cup {"pin_bar", "engulfing"},
     rows |-> [i \in 1..Len(frame.rows) |->
                 IF i = 1
                 THEN ("pin_bar" :> "none") @@ ("engulfing" :> "none") @@ frame.rows[i]
                 ELSE ("pin_bar" :> is_pin_bar(frame.rows[i], WickRatio))
                      @@ ("engulfing" :> is_engulfing(frame.rows[i], frame.rows[i - 1]))
                      @@ frame.rows[i]]]

----------------------------------------------------------------------------
(* signals.py *)

\* a > b and a < b on floats: false when either side is NaN
FloatGt(a, b) == a # NaN /\ b # NaN /\ a > b
FloatLt(a, b) == a # NaN /\ b # NaN /\ a < b

\* mutant: classifies from the first bar of the series
analyze_trend_first_bar(frame) ==
    IF Empty(frame) \/ "ema_200" \notin frame.columns THEN NEUTRAL
    ELSE LET first == frame.rows[1]
         IN  IF first["ema_200"] = NaN \/ "close" \notin frame.columns THEN NEUTRAL
             ELSE IF FloatGt(first["close"], first["ema_200"]) THEN UPTREND
             ELSE IF FloatLt(first["close"], first["ema_200"]) THEN DOWNTREND
             ELSE NEUTRAL

\* a NaN close is neither above nor below the ema_200: the else branch
analyze_trend(frame) ==
    IF Empty(frame) \/ "ema_200" \notin frame.columns THEN NEUTRAL
    ELSE LET latest == Last(frame)
         IN  IF latest["ema_200"] = NaN THEN NEUTRAL
             ELSE IF FloatGt(latest["close"], latest["ema_200"]) THEN UPTREND
             ELSE IF FloatLt(latest["close"], latest["ema_200"]) THEN DOWNTREND
             ELSE NEUTRAL

\* analyze_trend raises KeyError when it reads latest['close'] of a frame
\* without that column: after the guards on emptiness and on ema_200
analyze_trend_raises(frame) ==
    /\ ~(Empty(frame) \/ "ema_200" \notin frame.columns)
    /\ Last(frame)["ema_200"] # NaN
    /\ "close" \notin frame.columns

\* mutant: one uptrend (or one downtrend) is enough for an environment
check_environment_either(main, higher) ==
    LET main_trend == analyze_trend(main)
        higher_trend == analyze_trend(higher)
    IN  [long_env |-> main_trend = UPTREND \/ higher_trend = UPTREND,
         short_env |-> main_trend = DOWNTREND \/ higher_trend = DOWNTREND,
         trend_desc |-> <<main_trend, higher_trend>>]

check_environment(main, higher) ==
    LET main_trend == analyze_trend(main)
        higher_trend == analyze_trend(higher)
    IN  [long_env |-> main_trend = UPTREND /\ higher_trend = UPTREND,
         short_env |-> main_trend = DOWNTREND /\ higher_trend = DOWNTREND,
         trend_desc |-> <<main_trend, higher_trend>>]

\* threshold passed by check_setup, and its two RSI limits
SetupThreshold == 1
RsiLongLimit == 40
RsiShortLimit == 60

\* mutant: both conditions are required
check_setup_and(row, long) ==
    LET near_ema == is_near_ema20(row, SetupThreshold)
    IN  IF long
        THEN near_ema /\ row["rsi"] # NaN /\ row["rsi"] < RsiLongLimit
        ELSE near_ema /\ row["rsi"] # NaN /\ row["rsi"] > RsiShortLimit

check_setup(row, long) ==
    LET near_ema == is_near_ema20(row, SetupThreshold)
    IN  IF long
        THEN LET rsi_condition == IF row["rsi"] # NaN THEN row["rsi"] < RsiLongLimit
                                  ELSE FALSE
             IN  near_ema \/ rsi_condition
        ELSE LET rsi_condition == IF row["rsi"] # NaN THEN row["rsi"] > RsiShortLimit
                                  ELSE FALSE
             IN  near_ema \/ rsi_condition

\* mutant: any pattern fires the trigger, whatever the direction
check_trigger_any_direction(row, long) ==
    LET pin_bar == Get(row, "pin_bar", "none")
        engulfing == Get(row, "engulfing", "none")
    IN  IF pin_bar = "bullish_pin" THEN [ok |-> TRUE, desc |-> LowerWickPinBar]
        ELSE IF engulfing = "bullish_engulfing"
        THEN [ok |-> TRUE, desc |-> BullishEngulfingBar]
        ELSE IF pin_bar = "bearish_pin" THEN [ok |-> TRUE, desc |-> UpperWickPinBar]
        ELSE IF engulfing = "bearish_engulfing"
        THEN [ok |-> TRUE, desc |-> BearishEngulfingBar]
        ELSE [ok |-> FALSE, desc |-> ""]

check_trigger(row, long) ==
    LET pin_bar == Get(row, "pin_bar", "none")
        engulfing == Get(row, "engulfing", "none")
    IN  IF long /\ pin_bar = "bullish_pin"
        THEN [ok |-> TRUE, desc |-> LowerWickPinBar]
        ELSE IF long /\ engulfing = "bullish_engulfing"
        THEN [ok |-> TRUE, desc |-> BullishEngulfingBar]
        ELSE IF ~long /\ pin_bar = "bearish_pin"
        THEN [ok |-> TRUE, desc |-> UpperWickPinBar]
        ELSE IF ~long /\ engulfing = "bearish_engulfing"
        THEN [ok |-> TRUE, desc |-> BearishEngulfingBar]
        ELSE [ok |-> FALSE, desc |-> ""]

\* df.tail(n): the last n rows
Tail_n(frame, n) == SubSeq(frame.rows, Len(frame.rows) - n + 1, Len(frame.rows))

\* mutant: the window ends before the latest bar
calculate_risk_reward_stale_window(frame, long, lookback_arg, ratio) ==
    LET lb == IF Len(frame.rows) < lookback_arg THEN Len(frame.rows) ELSE lookback_arg
        recent == IF Len(frame.rows) = 1 THEN frame.rows
                  ELSE SubSeq(frame.rows, Max2(1, Len(frame.rows) - lb),
                              Len(frame.rows) - 1)
        current_price == Last(frame)["close"]
        stop_loss == IF long
                     THEN SetMin({recent[i]["low"] : i \in 1..Len(recent)})
                     ELSE SetMax({recent[i]["high"] : i \in 1..Len(recent)})
        risk == IF long THEN current_price - stop_loss ELSE stop_loss - current_price
        take_profit == IF long THEN current_price + (risk * ratio)
                       ELSE current_price - (risk * ratio)
    IN  [entry |-> current_price,
         stop_loss |-> stop_loss,
         take_profit |-> take_profit,
         risk |-> Abs(risk),
         reward |-> Abs(risk * ratio),
         rr_ratio |-> ratio]

\* mutant: the short stop is searched over the whole frame, not the window
calculate_risk_reward_whole_frame(frame, long, lookback_arg, ratio) ==
    LET recent == frame.rows
        current_price == Last(frame)["close"]
        stop_loss == IF long
                     THEN SetMin({recent[i]["low"] : i \in 1..Len(recent)})
                     ELSE SetMax({recent[i]["high"] : i \in 1..Len(recent)})
        risk == IF long THEN current_price - stop_loss ELSE stop_loss - current_price
        take_profit == IF long THEN current_price + (risk * ratio)
                       ELSE current_price - (risk * ratio)
    IN  [entry |-> current_price,
         stop_loss |-> stop_loss,
         take_profit |-> take_profit,
         risk |-> Abs(risk),
         reward |-> Abs(risk * ratio),
         rr_ratio |-> ratio]

\* mutant: the target is one risk away from the entry, whatever the ratio
calculate_risk_reward_unit_target(frame, long, lookback_arg, ratio) ==
    LET lb == IF Len(frame.rows) < lookback_arg THEN Len(frame.rows) ELSE lookback_arg
        recent == Tail_n(frame, lb)
        current_price == Last(frame)["close"]
        stop_loss == IF long
                     THEN SetMin({recent[i]["low"] : i \in 1..Len(recent)})
                     ELSE SetMax({recent[i]["high"] : i \in 1..Len(recent)})
        risk == IF long THEN current_price - stop_loss ELSE stop_loss - current_price
        take_profit == IF long THEN current_price + risk ELSE current_price - risk
    IN  [entry |-> current_price,
         stop_loss |-> stop_loss,
         take_profit |-> take_profit,
         risk |-> Abs(risk),
         reward |-> Abs(risk * ratio),
         rr_ratio |-> ratio]

\* mutant: the reward is reported for a ratio of 1, whatever the ratio
calculate_risk_reward_default_reward(frame, long, lookback_arg, ratio) ==
    LET lb == IF Len(frame.rows) < lookback_arg THEN Len(frame.rows) ELSE lookback_arg
        recent == Tail_n(frame, lb)
        current_price == Last(frame)["close"]
        stop_loss == IF long
                     THEN SetMin({recent[i]["low"] : i \in 1..Len(recent)})
                     ELSE SetMax({recent[i]["high"] : i \in 1..Len(recent)})
        risk == IF long THEN current_price - stop_loss ELSE stop_loss - current_price
        take_profit == IF long THEN current_price + (risk * ratio)
                       ELSE current_price - (risk * ratio)
    IN  [entry |-> current_price,
         stop_loss |-> stop_loss,
         take_profit |-> take_profit,
         risk |-> Abs(risk),
         reward |-> Abs(risk),
         rr_ratio |-> ratio]

calculate_risk_reward(frame, long, lookback_arg, ratio) ==
    LET lb == IF Len(frame.rows) < lookback_arg THEN Len(frame.rows) ELSE lookback_arg
        recent == Tail_n(frame, lb)
        current_price == Last(frame)["close"]
        stop_loss == IF long
                     THEN SetMin({recent[i]["low"] : i \in 1..Len(recent)})
                     ELSE SetMax({recent[i]["high"] : i \in 1..Len(recent)})
        risk == IF long THEN current_price - stop_loss ELSE stop_loss - current_price
        take_profit == IF long THEN current_price + (risk * ratio)
                       ELSE current_price - (risk * ratio)
    IN  [entry |-> current_price,
         stop_loss |-> stop_loss,
         take_profit |-> take_profit,
         risk |-> Abs(risk),
         reward |-> Abs(risk * ratio),
         rr_ratio |-> ratio]

\* defaults of calculate_risk_reward, used by generate_signal
DefaultLookback == 10
DefaultRrRatio == 2

InitialResult ==
    [signal |-> NONE, trend |-> <<>>, setup |-> FALSE, trigger |-> "",
     risk_reward |-> None, current_state |-> "wait", details |-> <<>>]

\* mutant: the trigger is evaluated even when the setup failed
LongBranch_no_setup_gate(r, main) ==
    LET current == Last(main)
        r1 == [r EXCEPT !.details = Append(@, LineLongEnv)]
        r2 == IF check_setup(current, TRUE)
              THEN [r1 EXCEPT !.setup = TRUE,
                              !.details = Append(@, LineLongSetup),
                              !.current_state = "waiting for pullback"]
              ELSE r1
        t == check_trigger(current, TRUE)
    IN  IF ~t.ok THEN r2
        ELSE [r2 EXCEPT !.signal = LONG,
                        !.trigger = t.desc,
                        !.details = Append(@, LineTrigger(t.desc)),
                        !.current_state = "buy signal on",
                        !.risk_reward = Some(calculate_risk_reward(
                            main, TRUE, DefaultLookback, DefaultRrRatio))]

\* the branch "if long_env"
LongBranch(r, main) ==
    LET current == Last(main)
        r1 == [r EXCEPT !.details = Append(@, LineLongEnv)]
    IN  IF ~check_setup(current, TRUE) THEN r1
        ELSE LET r2 == [r1 EXCEPT !.setup = TRUE,
                                  !.details = Append(@, LineLongSetup),
                                  !.current_state = "waiting for pullback"]
                 t == check_trigger(current, TRUE)
             IN  IF ~t.ok THEN r2
                 ELSE [r2 EXCEPT !.signal = LONG,
                                 !.trigger = t.desc,
                                 !.details = Append(@, LineTrigger(t.desc)),
                                 !.current_state = "buy signal on",
                                 !.risk_reward = Some(calculate_risk_reward(
                                     main, TRUE, DefaultLookback, DefaultRrRatio))]

\* mutant: the setup line is appended before the setup is checked
ShortBranch_early_setup_line(r, main) ==
    LET current == Last(main)
        r1 == [r EXCEPT !.details = Append(Append(@, LineShortEnv), LineShortSetup)]
    IN  IF ~check_setup(current, FALSE) THEN r1
        ELSE LET r2 == [r1 EXCEPT !.setup = TRUE,
                                  !.current_state = "waiting for retracement"]
                 t == check_trigger(current, FALSE)
             IN  IF ~t.ok THEN r2
                 ELSE [r2 EXCEPT !.signal = SHORT,
                                 !.trigger = t.desc,
                                 !.details = Append(@, LineTrigger(t.desc)),
                                 !.current_state = "sell signal on",
                                 !.risk_reward = Some(calculate_risk_reward(
                                     main, FALSE, DefaultLookback, DefaultRrRatio))]

\* the branch "elif short_env"
ShortBranch(r, main) ==
    LET current == Last(main)
        r1 == [r EXCEPT !.details = Append(@, LineShortEnv)]
    IN  IF ~check_setup(current, FALSE) THEN r1
        ELSE LET r2 == [r1 EXCEPT !.setup = TRUE,
                                  !.details = Append(@, LineShortSetup),
                                  !.current_state = "waiting for retracement"]
                 t == check_trigger(current, FALSE)
             IN  IF ~t.ok THEN r2
                 ELSE [r2 EXCEPT !.signal = SHORT,
                                 !.trigger = t.desc,
                                 !.details = Append(@, LineTrigger(t.desc)),
                                 !.current_state = "sell signal on",
                                 !.risk_reward = Some(calculate_risk_reward(
                                     main, FALSE, DefaultLookback, DefaultRrRatio))]

\* mutant: no early return for empty frames; their trend is neutral
generate_signal_no_empty_guard(main, higher) ==
    LET env == check_environment(main, higher)
        r == [InitialResult EXCEPT !.trend = env.trend_desc]
    IN  IF env.long_env THEN LongBranch(r, main)
        ELSE IF env.short_env THEN ShortBranch(r, main)
        ELSE [r EXCEPT !.details = Append(@, LineUnclear)]

generate_signal(main, higher) ==
    IF Empty(main) \/ Empty(higher) THEN InitialResult
    ELSE LET env == check_environment(main, higher)
             r == [InitialResult EXCEPT !.trend = env.trend_desc]
         IN  IF env.long_env THEN LongBranch(r, main)
             ELSE IF env.short_env THEN ShortBranch(r, main)
             ELSE [r EXCEPT !.details = Append(@, LineUnclear)]

----------------------------------------------------------------------------
(* generate_signal step by step, its result dict held by reference *)

\* mutant: one dict, created by the first call, serves every call
new_result_shared(objects) ==
    IF Len(objects) > 0 THEN [heap |-> objects, ref |-> 1]
    ELSE [heap |-> Append(objects, InitialResult), ref |-> Len(objects) + 1]

\* result = {...}: the dict literal creates a new dict, with a new list
new_result(objects) ==
    [heap |-> Append(objects, InitialResult), ref |-> Len(objects) + 1]

\* from the emptiness test to the environment line
environment_step(r, main, higher) ==
    IF Empty(main) \/ Empty(higher) THEN [result |-> r, next |-> "returned"]
    ELSE LET env == check_environment(main, higher)
             r1 == [r EXCEPT !.trend = env.trend_desc]
         IN  IF env.long_env
             THEN [result |-> [r1 EXCEPT !.details = Append(@, LineLongEnv)],
                   next |-> "long_setup"]
             ELSE IF env.short_env
             THEN [result |-> [r1 EXCEPT !.details = Append(@, LineShortEnv)],
                   next |-> "short_setup"]
             ELSE [result |-> [r1 EXCEPT !.details = Append(@, LineUnclear)],
                   next |-> "returned"]

\* setup_ok = check_setup(current, is_long) and the lines under "if setup_ok"
setup_step(r, main, long) ==
    IF ~check_setup(Last(main), long) THEN [result |-> r, next |-> "returned"]
    ELSE [result |-> [r EXCEPT !.setup = TRUE,
                               !.details = Append(@, IF long THEN LineLongSetup
                                                     ELSE LineShortSetup),
                               !.current_state = IF long THEN "waiting for pullback"
                                                 ELSE "waiting for retracement"],
          next |-> IF long THEN "long_trigger" ELSE "short_trigger"]

\* trigger_ok, trigger_desc = check_trigger(current, is_long) and the lines
\* under "if trigger_ok"
trigger_step(r, main, long) ==
    LET t == check_trigger(Last(main), long)
    IN  IF ~t.ok THEN [result |-> r, next |-> "returned"]
        ELSE [result |-> [r EXCEPT !.signal = IF long THEN LONG ELSE SHORT,
                                   !.trigger = t.desc,
                                   !.details = Append(@, LineTrigger(t.desc)),
                                   !.current_state = IF long THEN "buy signal on"
                                                     ELSE "sell signal on",
                                   !.risk_reward = Some(calculate_risk_reward(
                                       main, long, DefaultLookback, DefaultRrRatio))],
              next |-> "returned"]

----------------------------------------------------------------------------
(* portfolio_manager.py *)

\* Python's int(): truncation toward zero of num / den, den > 0
IntOf(num, den) == IF num >= 0 THEN num \div den ELSE -((-num) \div den)

\* mutant: rounds to the nearest share instead of truncating
calculate_position_size_rounded(balance, pct, entry, stop) ==
    IF entry <= stop THEN 0
    ELSE LET risk_per_share == entry - stop
         IN  Max2(0, IntOf(2 * balance * pct + 100 * risk_per_share,
                           200 * risk_per_share))

\* mutant: sizes on the distance between entry and stop, whichever is higher
calculate_position_size_symmetric(balance, pct, entry, stop) ==
    IF entry = stop THEN 0
    ELSE Max2(0, IntOf(balance * pct, 100 * Abs(entry - stop)))

\* risk_percent is given in percent points: pct stands for pct / 100
calculate_position_size(balance, pct, entry, stop) ==
    IF entry <= stop THEN 0
    ELSE LET risk_per_share == entry - stop
         IN  IF risk_per_share <= 0 THEN 0
             ELSE Max2(0, IntOf(balance * pct, 100 * risk_per_share))

\* mutant: rounds the share count up to a whole lot
calculate_max_shares_round_up(cash_arg, price, unit_arg) ==
    IF price <= 0 THEN 0
    ELSE ((IntOf(cash_arg, price) + unit_arg - 1) \div unit_arg) * unit_arg

\* int(cash / price), then floored to a multiple of unit
calculate_max_shares(cash_arg, price, unit_arg) ==
    IF price <= 0 THEN 0
    ELSE LET shares == IntOf(cash_arg, price)
         IN  (shares \div unit_arg) * unit_arg

----------------------------------------------------------------------------
(* Inputs of the signal pipeline *)

Prices == MinPrice..MaxPrice

\* a fetched bar: low <= min(open, close) and max(open, close) <= high
Bars ==
    {b \in [open : Prices, high : Prices, low : Prices, close : Prices] :
        b.low <= Min2(b.open, b.close) /\ Max2(b.open, b.close) <= b.high}

\* indicator values of the latest row, the outcome of the EMA and RSI
\* recursions over the history before it
Ema20Values == {99, 100}
Ema200Values == {NaN, 97, 100}
RsiValues == {NaN, 39, 40, 60, 61}

IndicatorColumns == {"open", "high", "low", "close", "ema_20", "ema_200", "rsi",
                     "ema_20_distance"}

\* a row of add_indicators' result
IndicatorRow(b, ema_20, ema_200, rsi) ==
    [c \in IndicatorColumns |->
        CASE c = "open" -> b.open
          [] c = "high" -> b.high
          [] c = "low" -> b.low
          [] c = "close" -> b.close
          [] c = "ema_20" -> ema_20
          [] c = "ema_200" -> ema_200
          [] c = "rsi" -> rsi
          [] c = "ema_20_distance" -> Ema20Distance(b.close, ema_20)]

\* the first row of a series: both EMAs start at the close, the RSI at NaN
FirstRow(b) == IndicatorRow(b, b.close, b.close, NaN)

\* a main frame with indicators.  The first row of a series is FirstRow;
\* a later latest row carries the indicator values e20, e200 and rsi.
MainFrame(bs, e20, e200, rsi) ==
    [columns |-> IndicatorColumns,
     rows |-> [i \in 1..Len(bs) |->
                 IF i = 1 THEN FirstRow(bs[i])
                 ELSE IF i = Len(bs) THEN IndicatorRow(bs[i], e20, e200, rsi)
                 ELSE IndicatorRow(bs[i], bs[i].close, bs[i].close, NaN)]]

\* higher frames: the columns analyze_trend reads, empty or one row
HigherColumns == {"close", "ema_200"}
HigherCells == ({99, 100, 101} \X {100}) \cup {<<101, NaN>>}
HigherFrames ==
    {[columns |-> HigherColumns, rows |-> <<>>]}
    \cup
    {[columns |-> HigherColumns,
      rows |-> <<[c \in HigherColumns |-> IF c = "close" THEN t[1] ELSE t[2]]>>] :
        t \in HigherCells}

----------------------------------------------------------------------------
(* Values of the variables a specification does not use *)

NoFrame == [columns |-> {}, rows |-> <<>>]

SignalIdle == df_main = NoFrame /\ df_higher = NoFrame /\ result = InitialResult
RrIdle ==
    /\ df = NoFrame /\ is_long = FALSE /\ lookback = 0 /\ rr_ratio = 0
    /\ risk_reward = None
SizeIdle ==
    /\ account_balance = 0 /\ risk_percent = 0 /\ entry_price = 0
    /\ stop_loss_price = 0 /\ position_size = 0
SharesIdle == cash = 0 /\ share_price = 0 /\ unit = 0 /\ max_shares = 0
TrendIdle == trend_df = NoFrame /\ trend_state = None
BarIdle ==
    /\ prev_bar = None /\ curr_bar = None /\ pin_label = None
    /\ engulfing_label = None
PatternIdle == ohlc = NoFrame /\ labelled = None
SeriesIdle ==
    /\ closes = <<>> /\ period = 0 /\ ema_series = None /\ rsi_series = None
FnIdle == SharesIdle /\ TrendIdle /\ BarIdle /\ PatternIdle /\ SeriesIdle
EarlyIdle == SignalIdle /\ RrIdle /\ SizeIdle /\ FnIdle
CallIdle == call = "none" /\ frames = <<>> /\ arg_main = 0 /\ arg_higher = 0 /\ local_df = 0 /\ loop_i = 0 /\ ret = None
EvalIdle == heap = <<>> /\ evals = <<>>
NotifyIdle == now = 0 /\ last_signals = <<>> /\ last_notification_time = None /\ history = <<>> /\ is_new_signal = None /\ shown = None
SchedIdle == clock = 0 /\ last_morning_scan = None /\ last_afternoon_scan = None /\ scans = <<>> /\ results = None /\ task_results = None
SellIdle == sell_df = None /\ sell_entry_price = 0 /\ sell_stop_loss = 0 /\ sell_result = None
MonitorIdle == fetched_15m = NoFrame /\ fetched_4h = NoFrame /\ monitor_signal = None /\ dashboard_signal = None
DbIdle == portfolio = <<>> /\ portfolio_file = <<>> /\ db_call = None /\ db_calls = 0
LateIdle == CallIdle /\ EvalIdle /\ NotifyIdle /\ SchedIdle /\ SellIdle /\ MonitorIdle /\ DbIdle
\* the idle values of the late variables outside one group
ExceptCallIdle == EarlyIdle /\ EvalIdle /\ NotifyIdle /\ SchedIdle /\ SellIdle /\ MonitorIdle /\ DbIdle
ExceptEvalIdle == EarlyIdle /\ CallIdle /\ NotifyIdle /\ SchedIdle /\ SellIdle /\ MonitorIdle /\ DbIdle
ExceptNotifyIdle == EarlyIdle /\ CallIdle /\ EvalIdle /\ SchedIdle /\ SellIdle /\ MonitorIdle /\ DbIdle
ExceptSchedIdle == EarlyIdle /\ CallIdle /\ EvalIdle /\ NotifyIdle /\ SellIdle /\ MonitorIdle /\ DbIdle
ExceptSellIdle == EarlyIdle /\ CallIdle /\ EvalIdle /\ NotifyIdle /\ SchedIdle /\ MonitorIdle /\ DbIdle
ExceptMonitorIdle == EarlyIdle /\ CallIdle /\ EvalIdle /\ NotifyIdle /\ SchedIdle /\ SellIdle /\ DbIdle
ExceptDbIdle == EarlyIdle /\ CallIdle /\ EvalIdle /\ NotifyIdle /\ SchedIdle /\ SellIdle /\ MonitorIdle

----------------------------------------------------------------------------
(* Spec: app.analyze_ticker's pipeline on frames with indicators *)

Init ==
    /\ pc = "indicators"
    /\ \E n \in 0..MaxLen :
          \E bs \in [1..n -> Bars], e20 \in Ema20Values, e200 \in Ema200Values,
             rsi \in RsiValues :
              df_main = MainFrame(bs, e20, e200, rsi)
    /\ df_higher \in HigherFrames
    /\ result = InitialResult
    /\ RrIdle /\ SizeIdle /\ FnIdle /\ LateIdle

\* df_main = detect_patterns(df_main)
DetectPatterns ==
    /\ pc = "indicators"
    /\ df_main' = detect_patterns(df_main)
    /\ pc' = "patterns"
    /\ UNCHANGED <<df_higher, result, rrVars, sizeVars, fnVars, lateVars>>

\* signal_result = generate_signal(df_main, df_higher)
GenerateSignal ==
    /\ pc = "patterns"
    /\ result' = generate_signal(df_main, df_higher)
    /\ pc' = "signal"
    /\ UNCHANGED <<df_main, df_higher, rrVars, sizeVars, fnVars, lateVars>>

Next == DetectPatterns \/ GenerateSignal

Spec == Init /\ [][Next]_vars

----------------------------------------------------------------------------
(* SpecRR: calculate_risk_reward on an OHLC frame, then the position        *)
(* calculator fed with its entry and stop                                   *)

\* longest frame and widest lookback given to calculate_risk_reward
RrMaxLen == 3
MaxLookback == 3

RrPrices == {90, 100, 110}
RrColumns == {"high", "low", "close"}
RrBars ==
    {b \in [high : RrPrices, low : RrPrices, close : RrPrices] :
        b.low <= b.close /\ b.close <= b.high}
RrFrames ==
    {[columns |-> RrColumns,
      rows |-> [i \in 1..t[1] |-> [c \in RrColumns |-> t[2][i][c]]]] :
        t \in UNION {{n} \X [1..n -> RrBars] : n \in 1..RrMaxLen}}
Lookbacks == (1..MaxLookback) \cup {DefaultLookback}
RrRatios == {DefaultRrRatio, DefaultRrRatio + 1}

\* the slider of render_position_calculator: 1 to 5 percent
MinRiskPercent == 1
MaxRiskPercent == 5
RiskPercents == MinRiskPercent..MaxRiskPercent
Balances == {1250, 1000000}

InitRR ==
    /\ pc = "rr_args"
    /\ df \in RrFrames
    /\ is_long \in BOOLEAN
    /\ lookback \in Lookbacks
    /\ rr_ratio \in RrRatios
    /\ risk_reward = None
    /\ SignalIdle /\ SizeIdle /\ FnIdle /\ LateIdle

\* risk_reward = calculate_risk_reward(df, is_long, lookback, rr_ratio)
CalculateRiskReward ==
    /\ pc = "rr_args"
    /\ risk_reward' = Some(calculate_risk_reward(df, is_long, lookback, rr_ratio))
    /\ pc' = "rr_done"
    /\ UNCHANGED <<df, is_long, lookback, rr_ratio, signalVars, sizeVars,
                   fnVars, lateVars>>

\* render_position_calculator(ticker, current_price, stop_loss_suggestion):
\* current_price is the latest close, the stop input starts at the stop of
\* the risk_reward; total assets and the risk slider are the user's
PositionCalculator ==
    /\ pc = "rr_done"
    /\ \E balance \in Balances, pct \in RiskPercents :
          /\ account_balance' = balance
          /\ risk_percent' = pct
          /\ entry_price' = Last(df)["close"]
          /\ stop_loss_price' = risk_reward[1].stop_loss
          /\ position_size' = calculate_position_size(
                 balance, pct, Last(df)["close"], risk_reward[1].stop_loss)
    /\ pc' = "rr_sized"
    /\ UNCHANGED <<rrVars, signalVars, fnVars, lateVars>>

NextRR == CalculateRiskReward \/ PositionCalculator

SpecRR == InitRR /\ [][NextRR]_vars

----------------------------------------------------------------------------
(* SpecSize: calculate_position_size on its four arguments *)

SizeBalances == {0, 1000, 1250, 1000000}

InitSize ==
    /\ pc = "size_args"
    /\ account_balance \in SizeBalances
    /\ risk_percent \in RiskPercents
    /\ entry_price \in Prices
    /\ stop_loss_price \in Prices
    /\ position_size = 0
    /\ SignalIdle /\ RrIdle /\ FnIdle /\ LateIdle

\* position_size = calculate_position_size(...)
CalculatePositionSize ==
    /\ pc = "size_args"
    /\ position_size' = calculate_position_size(
           account_balance, risk_percent, entry_price, stop_loss_price)
    /\ pc' = "size_done"
    /\ UNCHANGED <<account_balance, risk_percent, entry_price, stop_loss_price,
                   signalVars, rrVars, fnVars, lateVars>>

NextSize == CalculatePositionSize

SpecSize == InitSize /\ [][NextSize]_vars

----------------------------------------------------------------------------
(* SpecShares: calculate_max_shares on its three arguments *)

\* most cash, highest share price and largest lot
MaxCash == 12
MaxSharePrice == 4
MaxUnit == 3

\* the funds inputs of render_funds_input have min_value 0
Cashes == 0..MaxCash
\* a price may be zero or negative: the function answers 0 then
SharePrices == -1..MaxSharePrice
Units == 1..MaxUnit

InitShares ==
    /\ pc = "shares_args"
    /\ cash \in Cashes
    /\ share_price \in SharePrices
    /\ unit \in Units
    /\ max_shares = 0
    /\ SignalIdle /\ RrIdle /\ SizeIdle
    /\ TrendIdle /\ BarIdle /\ PatternIdle /\ SeriesIdle /\ LateIdle

\* max_shares = calculate_max_shares(cash, current_price, unit)
CalculateMaxShares ==
    /\ pc = "shares_args"
    /\ max_shares' = calculate_max_shares(cash, share_price, unit)
    /\ pc' = "shares_done"
    /\ UNCHANGED <<cash, share_price, unit, signalVars, rrVars, sizeVars,
                   trendVars, barVars, patternVars, seriesVars, lateVars>>

NextShares == CalculateMaxShares

SpecShares == InitShares /\ [][NextShares]_vars

----------------------------------------------------------------------------
(* SpecTrend: analyze_trend on a frame with or without its two columns *)

TrendColumnSets == SUBSET {"close", "ema_200"}
\* a cell is a price or NaN
TrendFrames(cols) ==
    {[columns |-> cols, rows |-> rs] :
        rs \in UNION {[1..n -> [cols -> Prices \cup {NaN}]] : n \in 0..MaxLen}}

InitTrend ==
    /\ pc = "trend_args"
    /\ \E cols \in TrendColumnSets :
          /\ trend_df \in TrendFrames(cols)
    /\ trend_state = None
    /\ SignalIdle /\ RrIdle /\ SizeIdle
    /\ SharesIdle /\ BarIdle /\ PatternIdle /\ SeriesIdle /\ LateIdle

\* trend_state = analyze_trend(trend_df), or the KeyError it raises
AnalyzeTrend ==
    /\ pc = "trend_args"
    /\ trend_state' = IF analyze_trend_raises(trend_df) THEN Some(Raised)
                      ELSE Some(analyze_trend(trend_df))
    /\ pc' = "trend_done"
    /\ UNCHANGED <<trend_df, signalVars, rrVars, sizeVars, sharesVars, barVars,
                   patternVars, seriesVars, lateVars>>

NextTrend == AnalyzeTrend

SpecTrend == InitTrend /\ [][NextTrend]_vars

----------------------------------------------------------------------------
(* SpecBar: is_pin_bar on a row, then is_engulfing on the row and the one  *)
(* before it, as in the loop body of detect_patterns                       *)

\* number of price levels of a bar
PriceLevels == 6

OhlcColumns == {"open", "high", "low", "close"}
BarPrices == MinPrice..(MinPrice + PriceLevels - 1)
\* a fetched bar as a row: low <= min(open, close), max(open, close) <= high
OhlcRows ==
    {r \in [OhlcColumns -> BarPrices] :
        /\ r["low"] <= Min2(r["open"], r["close"])
        /\ Max2(r["open"], r["close"]) <= r["high"]}

InitBar ==
    /\ pc = "bar_args"
    /\ \E p \in OhlcRows, c \in OhlcRows :
          prev_bar = Some(p) /\ curr_bar = Some(c)
    /\ pin_label = None
    /\ engulfing_label = None
    /\ SignalIdle /\ RrIdle /\ SizeIdle
    /\ SharesIdle /\ TrendIdle /\ PatternIdle /\ SeriesIdle /\ LateIdle

\* _, pin_type = is_pin_bar(df.iloc[i])
IsPinBar ==
    /\ pc = "bar_args"
    /\ pin_label' = Some(is_pin_bar(curr_bar[1], WickRatio))
    /\ pc' = "bar_pin"
    /\ UNCHANGED <<prev_bar, curr_bar, engulfing_label, signalVars, rrVars,
                   sizeVars, sharesVars, trendVars, patternVars, seriesVars, lateVars>>

\* _, engulf_type = is_engulfing(df.iloc[i], df.iloc[i-1])
IsEngulfing ==
    /\ pc = "bar_pin"
    /\ engulfing_label' = Some(is_engulfing(curr_bar[1], prev_bar[1]))
    /\ pc' = "bar_done"
    /\ UNCHANGED <<prev_bar, curr_bar, pin_label, signalVars, rrVars,
                   sizeVars, sharesVars, trendVars, patternVars, seriesVars, lateVars>>

NextBar == IsPinBar \/ IsEngulfing

SpecBar == InitBar /\ [][NextBar]_vars

----------------------------------------------------------------------------
(* SpecPatterns: detect_patterns on an OHLC frame *)

\* longest frame given to detect_patterns
PatMaxLen == 3

PatternRows == {r \in OhlcRows : \A c \in OhlcColumns : r[c] \in Prices}

InitPatterns ==
    /\ pc = "patterns_args"
    /\ \E n \in 0..PatMaxLen :
          \E rs \in [1..n -> PatternRows] :
              ohlc = [columns |-> OhlcColumns, rows |-> rs]
    /\ labelled = None
    /\ SignalIdle /\ RrIdle /\ SizeIdle
    /\ SharesIdle /\ TrendIdle /\ BarIdle /\ SeriesIdle /\ LateIdle

\* labelled = detect_patterns(ohlc)
DetectPatternsOhlc ==
    /\ pc = "patterns_args"
    /\ labelled' = Some(detect_patterns(ohlc))
    /\ pc' = "patterns_done"
    /\ UNCHANGED <<ohlc, signalVars, rrVars, sizeVars, sharesVars, trendVars,
                   barVars, seriesVars, lateVars>>

NextPatterns == DetectPatternsOhlc

SpecPatterns == InitPatterns /\ [][NextPatterns]_vars

----------------------------------------------------------------------------
(* SpecSeries: calculate_ema and calculate_rsi on a close series *)

\* longest series and highest close
SeriesMaxLen == 3
MaxClose == 3

SeriesCloses == 1..MaxClose
\* spans given to calculate_ema; span 200 follows the same recursion with
\* 201 in the place of 21 and is left out to keep the products small
Periods == {RsiPeriod, Ema20Period}

InitSeries ==
    /\ pc = "series_args"
    /\ \E n \in 0..SeriesMaxLen : closes \in [1..n -> SeriesCloses]
    /\ period \in Periods
    /\ ema_series = None
    /\ rsi_series = None
    /\ SignalIdle /\ RrIdle /\ SizeIdle
    /\ SharesIdle /\ TrendIdle /\ BarIdle /\ PatternIdle /\ LateIdle

\* ema_series = calculate_ema(closes, period)
CalculateEma ==
    /\ pc = "series_args"
    /\ ema_series = None
    /\ ema_series' = Some(calculate_ema(closes, period))
    /\ UNCHANGED <<pc, closes, period, rsi_series, signalVars, rrVars, sizeVars,
                   sharesVars, trendVars, barVars, patternVars, lateVars>>

\* rsi_series = calculate_rsi(closes, 14)
CalculateRsi ==
    /\ pc = "series_args"
    /\ rsi_series = None
    /\ rsi_series' = Some(calculate_rsi(closes, RsiPeriod))
    /\ UNCHANGED <<pc, closes, period, ema_series, signalVars, rrVars, sizeVars,
                   sharesVars, trendVars, barVars, patternVars, lateVars>>

NextSeries == CalculateEma \/ CalculateRsi

SpecSeries == InitSeries /\ [][NextSeries]_vars

----------------------------------------------------------------------------
(* SpecPipeline: add_indicators, detect_patterns and generate_signal on    *)
(* fetched frames too short for the indicators                             *)

\* longest fetched frame
PipeMaxLen == 1

\* prices are whole multiples of (20 + 1) * (200 + 1): the EMAs of the first
\* two bars of a series are whole then
EmaScale == (Ema20Period + 1) * (Ema200Period + 1)
PipePrices == {q * EmaScale : q \in Prices}
PipeRows ==
    {r \in [OhlcColumns -> PipePrices] :
        /\ r["low"] <= Min2(r["open"], r["close"])
        /\ Max2(r["open"], r["close"]) <= r["high"]}
\* only the close of a higher bar is read
FlatRows == {r \in PipeRows : r["open"] = r["close"] /\ r["high"] = r["low"]}

InitPipeline ==
    /\ pc = "fetched"
    /\ \E n \in 0..PipeMaxLen :
          \E rs \in [1..n -> PipeRows] :
              df_main = [columns |-> OhlcColumns, rows |-> rs]
    /\ \E n \in 0..PipeMaxLen :
          \E rs \in [1..n -> FlatRows] :
              df_higher = [columns |-> OhlcColumns, rows |-> rs]
    /\ result = InitialResult
    /\ RrIdle /\ SizeIdle /\ FnIdle /\ LateIdle

\* df_main = add_indicators(df_main); df_higher = add_indicators(df_higher)
AddIndicators ==
    /\ pc = "fetched"
    /\ df_main' = add_indicators(df_main)
    /\ df_higher' = add_indicators(df_higher)
    /\ pc' = "indicators"
    /\ UNCHANGED <<result, rrVars, sizeVars, fnVars, lateVars>>

NextPipeline == AddIndicators \/ DetectPatterns \/ GenerateSignal

SpecPipeline == InitPipeline /\ [][NextPipeline]_vars

----------------------------------------------------------------------------
(* SpecEvaluations: evaluations of generate_signal for several tickers,    *)
(* their steps interleaved                                                 *)

\* number of tickers evaluated at the same time
NumTickers == 2

Tickers == 1..NumTickers

\* main frames of an evaluation: empty, or two bars between MinPrice + 1 and
\* MinPrice + 2 with a body, the latest with the indicators e200 and rsi
BodyBars ==
    {b \in Bars : b.low = MinPrice + 1 /\ b.high = MinPrice + 2 /\ b.open # b.close}
EvalMainFrames ==
    {[columns |-> IndicatorColumns \cup {"pin_bar", "engulfing"}, rows |-> <<>>]}
    \cup
    {detect_patterns(MainFrame(<<t[1], t[2]>>, MinPrice + 1, t[3], t[4])) :
        t \in BodyBars \X BodyBars \X (Ema200Values \ {NaN}) \X {39, 61}}
EvalHigherFrames == {h \in HigherFrames : analyze_trend(h) # NEUTRAL \/ Empty(h)}

InitEvaluations ==
    /\ pc = "evaluations"
    /\ heap = <<>>
    /\ evals \in [Tickers -> [pc : {"called"}, main : EvalMainFrames,
                               higher : EvalHigherFrames, ref : {0}]]
    /\ ExceptEvalIdle

\* result = {...}
NewResult(t) ==
    /\ evals[t].pc = "called"
    /\ LET n == new_result(heap)
       IN  /\ heap' = n.heap
           /\ evals' = [evals EXCEPT ![t].ref = n.ref, ![t].pc = "environment"]
    /\ UNCHANGED <<pc, exceptEvalVars>>

EnvironmentStep(t) ==
    /\ evals[t].pc = "environment"
    /\ LET e == evals[t]
           s == environment_step(heap[e.ref], e.main, e.higher)
       IN  /\ heap' = [heap EXCEPT ![e.ref] = s.result]
           /\ evals' = [evals EXCEPT ![t].pc = s.next]
    /\ UNCHANGED <<pc, exceptEvalVars>>

SetupStep(t) ==
    /\ evals[t].pc \in {"long_setup", "short_setup"}
    /\ LET e == evals[t]
           s == setup_step(heap[e.ref], e.main, e.pc = "long_setup")
       IN  /\ heap' = [heap EXCEPT ![e.ref] = s.result]
           /\ evals' = [evals EXCEPT ![t].pc = s.next]
    /\ UNCHANGED <<pc, exceptEvalVars>>

TriggerStep(t) ==
    /\ evals[t].pc \in {"long_trigger", "short_trigger"}
    /\ LET e == evals[t]
           s == trigger_step(heap[e.ref], e.main, e.pc = "long_trigger")
       IN  /\ heap' = [heap EXCEPT ![e.ref] = s.result]
           /\ evals' = [evals EXCEPT ![t].pc = s.next]
    /\ UNCHANGED <<pc, exceptEvalVars>>

NextEvaluations ==
    \E t \in Tickers :
        \/ NewResult(t)
        \/ EnvironmentStep(t)
        \/ SetupStep(t)
        \/ TriggerStep(t)

SpecEvaluations == InitEvaluations /\ [][NextEvaluations]_vars

----------------------------------------------------------------------------
(* notifications.py: NotificationManager *)

\* the history keeps the latest 50 alerts
MaxHistory == 50

\* the slice xs[:limit] of a Python list
SliceTo(xs, limit) ==
    IF limit >= 0 THEN SubSeq(xs, 1, Min2(limit, Len(xs)))
    ELSE SubSeq(xs, 1, Max2(Len(xs) + limit, 0))

\* mutant: the alert is appended at the end of the history
add_alert_append(hist, timestamp, ticker, signal_type, message) ==
    LET alert == [timestamp |-> timestamp, ticker |-> ticker,
                  type |-> signal_type, message |-> message]
        inserted == Append(hist, alert)
    IN  IF Len(inserted) > MaxHistory THEN SliceTo(inserted, MaxHistory)
        ELSE inserted

\* mutant: the history is never cut
add_alert_uncut(hist, timestamp, ticker, signal_type, message) ==
    <<[timestamp |-> timestamp, ticker |-> ticker,
       type |-> signal_type, message |-> message]>> \o hist

\* add_alert: the history after the call, timestamp being datetime.now()
add_alert(hist, timestamp, ticker, signal_type, message) ==
    LET alert == [timestamp |-> timestamp, ticker |-> ticker,
                  type |-> signal_type, message |-> message]
        inserted == <<alert>> \o hist
    IN  IF Len(inserted) > MaxHistory THEN SliceTo(inserted, MaxHistory)
        ELSE inserted

\* mutant: the oldest alerts are returned
get_history_oldest(hist, limit) ==
    SubSeq(hist, Len(hist) - Min2(limit, Len(hist)) + 1, Len(hist))

\* get_history
get_history(hist, limit) == SliceTo(hist, limit)

----------------------------------------------------------------------------
(* app.py: check_and_notify, on the session state *)

MinutesPerDay == 24 * 60
weekday(t) == (t \div MinutesPerDay) % 7
MinuteOfDay(t) == t % MinutesPerDay
\* now.replace(hour=9, minute=0) and now.replace(hour=15, minute=30)
market_open(t) == t - MinuteOfDay(t) + 9 * 60
market_close(t) == t - MinuteOfDay(t) + 15 * 60 + 30

\* str.endswith, tickers being sequences of characters
EndsWith(s, suffix) ==
    /\ Len(s) >= Len(suffix)
    /\ SubSeq(s, Len(s) - Len(suffix) + 1, Len(s)) = suffix

\* dict.get(key), None when the key is missing
DictGet(d, key) == IF key \in DOMAIN d THEN Some(d[key]) ELSE None
\* d[key] = value
DictSet(d, key, value) ==
    [k \in DOMAIN d \cup {key} |-> IF k = key THEN value ELSE d[k]]

cooldown_minutes == 30

\* the early returns of the trading-hours check
outside_trading_hours(ticker, t) ==
    IF EndsWith(ticker, <<".", "T">>)
    THEN \/ ~(market_open(t) <= t /\ t <= market_close(t))
         \/ weekday(t) >= 5
    ELSE weekday(t) >= 5

\* the early return "if elapsed < cooldown_minutes and signal_type == last_signal"
in_cooldown(signal_type, last_signal, last_notify_time, t) ==
    /\ last_notify_time # None
    /\ t - last_notify_time[1] < cooldown_minutes
    /\ Some(signal_type) = last_signal

\* mutant: every signal other than none is notified
should_notify_any_signal(signal_type, last_signal) ==
    signal_type # NONE

\* "if signal_type != SignalType.NONE and signal_type != last_signal"
should_notify(signal_type, last_signal) ==
    signal_type # NONE /\ Some(signal_type) # last_signal

\* check_and_notify on the session state s at clock t: the state after it and
\* what it returns
check_and_notify(s, t, ticker, signal_result) ==
    LET signal_type == signal_result.signal
    IN  IF outside_trading_hours(ticker, t)
        THEN [s EXCEPT !.ret = None]
        ELSE
        LET times == IF s.last_notification_time = None THEN <<>>
                     ELSE s.last_notification_time[1]
            s1 == [s EXCEPT !.last_notification_time = Some(times)]
            last_signal == DictGet(s.last_signals, ticker)
            last_notify_time == DictGet(times, ticker)
        IN  IF in_cooldown(signal_type, last_signal, last_notify_time, t)
            THEN [s1 EXCEPT !.ret = None]
            ELSE IF should_notify(signal_type, last_signal)
            THEN [last_signals |-> DictSet(s.last_signals, ticker, signal_type),
                  last_notification_time |-> Some(DictSet(times, ticker, t)),
                  history |-> add_alert(s.history, t, ticker,
                                        IF signal_type = LONG THEN "buy" ELSE "sell",
                                        signal_result.current_state),
                  ret |-> Some(TRUE)]
            ELSE [s1 EXCEPT !.ret = Some(FALSE)]

----------------------------------------------------------------------------
(* One dashboard session: reruns call check_and_notify while the clock runs *)

MaxTicks == 4
MaxAlerts == 3

Tickers2 == {<<"A", "A", "P", "L">>, <<"7", "2", "0", "3", ".", "T">>}

\* the session opens on a Friday at 15:00; reruns come a quarter of an hour
\* apart, and one comes on the Saturday
FridayAfternoon == 4 * MinutesPerDay + 15 * 60
Times == {FridayAfternoon + 15 * k : k \in 0..MaxTicks}
             \cup {FridayAfternoon + MinutesPerDay}

\* what check_and_notify reads of a generate_signal result
SignalResults ==
    {[signal |-> NONE, current_state |-> "wait"],
     [signal |-> NONE, current_state |-> "waiting for pullback"],
     [signal |-> LONG, current_state |-> "buy signal on"],
     [signal |-> SHORT, current_state |-> "sell signal on"]}

SessionState ==
    [last_signals |-> last_signals,
     last_notification_time |-> last_notification_time,
     history |-> history, ret |-> is_new_signal]

InitNotify ==
    /\ pc = "session"
    /\ now = FridayAfternoon
    /\ last_signals = <<>>
    /\ last_notification_time = None
    /\ history = <<>>
    /\ is_new_signal = None
    /\ shown = None
    /\ ExceptNotifyIdle

\* time passes between two reruns, and while a notification is being sent
Tick ==
    /\ pc \in {"session", "sending"}
    /\ \E t \in Times : t > now /\ now' = t
    /\ UNCHANGED <<pc, last_signals, last_notification_time, history,
                   is_new_signal, shown, exceptNotifyVars>>

\* is_new_signal = check_and_notify(ticker, signal_result), up to the point
\* where the call returns or starts to send.  A call that does not notify
\* returns at once.  A call that notifies has written last_signals,
\* last_notification_time and the alert when it posts to the webhooks and
\* renders the browser script; it returns True after that
CheckAndNotify ==
    /\ pc = "session"
    /\ Len(history) < MaxAlerts
    /\ \E ticker \in Tickers2, signal_result \in SignalResults :
         LET after == check_and_notify(SessionState, now, ticker, signal_result)
         IN  /\ last_signals' = after.last_signals
             /\ last_notification_time' = after.last_notification_time
             /\ history' = after.history
             /\ IF after.ret = Some(TRUE)
                THEN pc' = "sending" /\ is_new_signal' = is_new_signal
                ELSE pc' = pc /\ is_new_signal' = after.ret
    /\ UNCHANGED <<now, shown, exceptNotifyVars>>

\* notifier.send_all and components.html are over: return True
SendAndReturn ==
    /\ pc = "sending"
    /\ pc' = "session"
    /\ is_new_signal' = Some(TRUE)
    /\ UNCHANGED <<now, last_signals, last_notification_time, history, shown,
                   exceptNotifyVars>>

NextNotify == Tick \/ CheckAndNotify \/ SendAndReturn

SpecNotify == InitNotify /\ [][NextNotify]_vars

----------------------------------------------------------------------------
(* One NotificationManager: add_alert and get_history called in any order *)

\* add_alert calls made beyond the length the history is cut to
MaxOverflow == 2
\* get_history(limit=10)
DefaultLimit == 10
Limits == {0, 1, DefaultLimit, MaxHistory, MaxHistory + 1}

InitAlerts ==
    /\ pc = "alerts"
    /\ now = 0
    /\ last_signals = <<>>
    /\ last_notification_time = None
    /\ history = <<>>
    /\ is_new_signal = None
    /\ shown = None
    /\ ExceptNotifyIdle

\* notification_manager.add_alert(ticker, signal_type, message); the clock,
\* read for the timestamp, is a minute further at the next call
AddAlert ==
    /\ pc = "alerts"
    /\ now < MaxHistory + MaxOverflow
    /\ history' = add_alert(history, now, <<"A", "A", "P", "L">>, "info", "alert")
    /\ now' = now + 1
    /\ UNCHANGED <<pc, last_signals, last_notification_time, is_new_signal,
                   shown, exceptNotifyVars>>

\* notification_manager.get_history(limit)
GetHistory ==
    /\ pc = "alerts"
    /\ \E limit \in Limits :
         shown' = Some([limit |-> limit, alerts |-> get_history(history, limit)])
    /\ UNCHANGED <<pc, now, last_signals, last_notification_time, history,
                   is_new_signal, exceptNotifyVars>>

NextAlerts == AddAlert \/ GetHistory

SpecAlerts == InitAlerts /\ [][NextAlerts]_vars

----------------------------------------------------------------------------
(* scheduled_tasks.py *)

\* datetime.date(), .hour and .minute of a clock value
date(t) == t \div MinutesPerDay
hour(t) == MinuteOfDay(t) \div 60
minute(t) == MinuteOfDay(t) % 60

\* mutant: the scan of an earlier call of the same day is not looked at
should_run_morning_scan_any_call(t, last_run) ==
    ~(weekday(t) >= 5) /\ (hour(t) = 8 /\ minute(t) < 5)

\* should_run_morning_scan, last_run being st.session_state.get('last_morning_scan')
should_run_morning_scan(t, last_run) ==
    IF weekday(t) >= 5 THEN FALSE
    ELSE IF ~(hour(t) = 8 /\ minute(t) < 5) THEN FALSE
    ELSE IF last_run # None /\ date(last_run[1]) = date(t) THEN FALSE
    ELSE TRUE

\* should_run_afternoon_scan
should_run_afternoon_scan(t, last_run) ==
    IF weekday(t) >= 5 THEN FALSE
    ELSE IF ~(hour(t) = 15 /\ 15 <= minute(t) /\ minute(t) < 20) THEN FALSE
    ELSE IF last_run # None /\ date(last_run[1]) = date(t) THEN FALSE
    ELSE TRUE

InitialResults == [morning_ran |-> FALSE, afternoon_ran |-> FALSE]
\* what leaves the function: the results dict, or what a scan raised
Returns(value) == Some([raised |-> FALSE, value |-> value])
Raises == Some([raised |-> TRUE])

\* A scan started at clock t; ok turns TRUE when it ends without raising
Scan(kind, t) == [kind |-> kind, at |-> t, ok |-> FALSE]

\* return results
return_results(s) ==
    [s EXCEPT !.results = Returns(s.task_results[1]),
              !.task_results = None,
              !.pc = "scheduler"]

\* check_and_run_scheduled_tasks from the afternoon test to the next point
\* where it waits or returns, on the session state s.  When the test passes
\* the marker is written and the afternoon scans start; otherwise the results
\* dict is returned
afternoon_stage(s) ==
    IF should_run_afternoon_scan(s.clock, s.last_afternoon_scan)
    THEN [s EXCEPT !.last_afternoon_scan = Some(s.clock),
                   !.scans = Append(@, Scan("afternoon", s.clock)),
                   !.task_results = Some([@[1] EXCEPT !.afternoon_ran = TRUE]),
                   !.pc = "afternoon_scan"]
    ELSE return_results(s)

\* check_and_run_scheduled_tasks from its first line to the next point where
\* it waits or returns.  When the morning test passes the marker is written
\* and the morning scans start; otherwise the afternoon test follows at once
morning_stage(s) ==
    LET s0 == [s EXCEPT !.task_results = Some(InitialResults)]
    IN  IF should_run_morning_scan(s.clock, s.last_morning_scan)
        THEN [s0 EXCEPT !.last_morning_scan = Some(s.clock),
                        !.scans = Append(@, Scan("morning", s.clock)),
                        !.task_results = Some([@[1] EXCEPT !.morning_ran = TRUE]),
                        !.pc = "morning_scan"]
        ELSE afternoon_stage(s0)

\* the scans under way raise: the exception leaves the function
scan_raises(s) ==
    [s EXCEPT !.results = Raises, !.task_results = None, !.pc = "scheduler"]

\* the scans under way end and their values are stored in the results dict
scan_returns(s) == [s EXCEPT !.scans[Len(s.scans)].ok = TRUE]

----------------------------------------------------------------------------
(* One session: the app reruns and calls check_and_run_scheduled_tasks *)

MaxScans == 5

\* reruns come on a Friday, the Saturday and the Monday after, around the
\* edges of the two windows
Days == {4, 5, 7}
EdgeMinutes == {7 * 60 + 59, 8 * 60, 8 * 60 + 4, 8 * 60 + 5,
                15 * 60 + 14, 15 * 60 + 15, 15 * 60 + 19, 15 * 60 + 20}
SchedTimes == {d * MinutesPerDay + m : d \in Days, m \in EdgeMinutes}

SchedState ==
    [last_morning_scan |-> last_morning_scan,
     last_afternoon_scan |-> last_afternoon_scan,
     scans |-> scans, results |-> results, task_results |-> task_results,
     clock |-> clock, pc |-> pc]

InitSchedule ==
    /\ pc = "scheduler"
    /\ clock = 4 * MinutesPerDay + 7 * 60 + 59
    /\ last_morning_scan = None
    /\ last_afternoon_scan = None
    /\ scans = <<>>
    /\ results = None
    /\ task_results = None
    /\ ExceptSchedIdle

\* time passes before the next rerun, and while the scans of a call run
\* (price fetches, webhook posts, time.sleep)
TickSchedule ==
    /\ pc \in {"scheduler", "morning_scan", "afternoon_scan"}
    /\ \E t \in SchedTimes : t > clock /\ clock' = t
    /\ UNCHANGED <<pc, last_morning_scan, last_afternoon_scan, scans, results,
                   task_results, exceptSchedVars>>

\* scheduled_results = check_and_run_scheduled_tasks(): the call starts
CheckAndRunScheduledTasks ==
    /\ pc = "scheduler"
    /\ Len(scans) < MaxScans
    /\ LET after == morning_stage(SchedState)
       IN  /\ last_morning_scan' = after.last_morning_scan
           /\ last_afternoon_scan' = after.last_afternoon_scan
           /\ scans' = after.scans
           /\ results' = after.results
           /\ task_results' = after.task_results
           /\ pc' = after.pc
    /\ UNCHANGED <<clock, exceptSchedVars>>

\* run_scheduled_portfolio_scan and run_scheduled_screener_scan of the
\* morning end: one of them raised, or the afternoon test follows
MorningScanEnds ==
    /\ pc = "morning_scan"
    /\ \E raises \in BOOLEAN :
         LET after == IF raises THEN scan_raises(SchedState)
                      ELSE afternoon_stage(scan_returns(SchedState))
         IN  /\ last_afternoon_scan' = after.last_afternoon_scan
             /\ scans' = after.scans
             /\ results' = after.results
             /\ task_results' = after.task_results
             /\ pc' = after.pc
    /\ UNCHANGED <<clock, last_morning_scan, exceptSchedVars>>

\* the two scans of the afternoon end: one of them raised, or the results
\* dict is returned
AfternoonScanEnds ==
    /\ pc = "afternoon_scan"
    /\ \E raises \in BOOLEAN :
         LET after == IF raises THEN scan_raises(SchedState)
                      ELSE return_results(scan_returns(SchedState))
         IN  /\ scans' = after.scans
             /\ results' = after.results
             /\ task_results' = after.task_results
             /\ pc' = after.pc
    /\ UNCHANGED <<clock, last_morning_scan, last_afternoon_scan, exceptSchedVars>>

NextSchedule ==
    TickSchedule \/ CheckAndRunScheduledTasks \/ MorningScanEnds \/ AfternoonScanEnds

SpecSchedule == InitSchedule /\ [][NextSchedule]_vars

----------------------------------------------------------------------------
(* sell_advisor.py: calculate_sell_score *)

\* fewer daily bars than this is "not enough data"
MinBars == 20

\* the result dict; its details are not modelled
InitialSellResult ==
    [sell_score |-> 0, reasons |-> <<>>, recommendation |-> "hold",
     urgency |-> "safe"]

\* calculate_ema and calculate_rsi called on a whole DataFrame: ewm, diff and
\* where work column by column, and the frame that comes back has the columns
\* of the frame that went in, each smoothed (or turned into its RSI).  Only the
\* column names are modelled.
calculate_ema_frame_columns(columns, span) == columns
calculate_rsi_frame_columns(columns, span) == columns

\* calculate_sell_score, fetched being what fetch_stock_data returned.  With
\* enough bars the three indicator calls replace df by a frame that has no
\* 'rsi' column, so latest['rsi'] raises KeyError, which the except clause
\* turns into a reason; the scoring below that line runs only on a frame that
\* already had an 'rsi' column, which fetch_stock_data never returns.
calculate_sell_score(fetched, entry, stop) ==
    IF fetched = None \/ Len(fetched[1].rows) < MinBars
    THEN [InitialSellResult EXCEPT !.reasons = Append(@, "not enough data")]
    ELSE LET columns == calculate_rsi_frame_columns(
                            calculate_ema_frame_columns(
                                calculate_ema_frame_columns(
                                    fetched[1].columns, Ema20Period),
                                Ema200Period),
                            RsiPeriod)
         IN  CASE "close" \notin columns \/ "rsi" \notin columns ->
                  [InitialSellResult EXCEPT !.reasons = Append(@, "analysis error")]

----------------------------------------------------------------------------
(* SpecSell: calculate_sell_score on a holding of one ticker *)

\* the columns of yfinance's history, in lower case
HistoryColumns == {"open", "high", "low", "close", "volume", "dividends",
                   "stock splits"}
SellPrices == {95, 100, 105}
\* a daily bar closing at c
DailyBar(c) ==
    [k \in HistoryColumns |->
        CASE k = "close" -> c
          [] k = "open" -> 100
          [] k = "high" -> 105
          [] k = "low" -> 95
          [] k = "volume" -> 1000
          [] OTHER -> 0]
\* n daily bars, the latest closing at c
DailyFrame(n, c) ==
    [columns |-> HistoryColumns,
     rows |-> [i \in 1..n |-> DailyBar(IF i = n THEN c ELSE 100)]]
Fetched ==
    {None} \cup {Some(DailyFrame(n, c)) : n \in {MinBars - 1, MinBars}, c \in SellPrices}

InitSell ==
    /\ pc = "sell_args"
    /\ sell_df \in Fetched
    /\ sell_entry_price \in SellPrices
    /\ sell_stop_loss \in {0} \cup SellPrices
    /\ sell_result = None
    /\ ExceptSellIdle

CalculateSellScore ==
    /\ pc = "sell_args"
    /\ pc' = "sell_returned"
    /\ sell_result' = Some(calculate_sell_score(sell_df, sell_entry_price,
                                                sell_stop_loss))
    /\ UNCHANGED <<sell_df, sell_entry_price, sell_stop_loss, exceptSellVars>>

SpecSell == InitSell /\ [][CalculateSellScore]_vars

----------------------------------------------------------------------------
(* monitor.py: check_signal *)

\* the indicator columns check_signal computes inline on a frame
monitor_indicators(frame) ==
    LET ema_20 == calculate_ema(CloseOf(frame), Ema20Period)
        ema_200 == calculate_ema(CloseOf(frame), Ema200Period)
        rsi == calculate_rsi(CloseOf(frame), RsiPeriod)
    IN  [columns |-> frame.columns \cup {"ema_20", "ema_200", "rsi"},
         rows |-> [i \in 1..Len(frame.rows) |->
                     ("ema_20" :> Cell(ema_20[i]))
                     @@ ("ema_200" :> Cell(ema_200[i]))
                     @@ ("rsi" :> FloatCell(rsi[i]))
                     @@ frame.rows[i]]]

NoSignal == [signal |-> None]

\* abs(latest['close'] - latest['ema_20']) / latest['ema_20'] < 0.01, the
\* 20 EMA of positive prices being positive
monitor_near_ema(latest) ==
    100 * Abs(latest["close"] - latest["ema_20"]) < latest["ema_20"]

\* check_signal on the fetched frames, df_4h being the resampled hourly bars.
\* An empty frame returns no signal at once; iloc[-2] of a single main bar and
\* iloc[-1] of an empty frame raise, which the except clause turns into no
\* signal.  A comparison with a NaN RSI is false.
check_signal(df_15m_raw, df_4h_raw) ==
    IF Empty(df_15m_raw) \/ Empty(df_4h_raw) THEN NoSignal
    ELSE IF Len(df_15m_raw.rows) < 2 THEN NoSignal
    ELSE
    LET df_15m == monitor_indicators(df_15m_raw)
        df_4h == monitor_indicators(df_4h_raw)
        latest == df_15m.rows[Len(df_15m.rows)]
        prev == df_15m.rows[Len(df_15m.rows) - 1]
        latest_4h == df_4h.rows[Len(df_4h.rows)]
        main_uptrend == latest["close"] > latest["ema_200"]
        higher_uptrend == latest_4h["close"] > latest_4h["ema_200"]
        main_downtrend == latest["close"] < latest["ema_200"]
        higher_downtrend == latest_4h["close"] < latest_4h["ema_200"]
        body == Abs(latest["close"] - latest["open"])
        lower_wick == Min2(latest["open"], latest["close"]) - latest["low"]
        upper_wick == latest["high"] - Max2(latest["open"], latest["close"])
        bullish_pin == body > 0 /\ lower_wick >= body * 2 /\ 2 * upper_wick < body
        bearish_pin == body > 0 /\ upper_wick >= body * 2 /\ 2 * lower_wick < body
        curr_body_high == Max2(latest["open"], latest["close"])
        curr_body_low == Min2(latest["open"], latest["close"])
        prev_body_high == Max2(prev["open"], prev["close"])
        prev_body_low == Min2(prev["open"], prev["close"])
        bullish_engulfing == /\ prev["close"] < prev["open"]
                             /\ latest["close"] > latest["open"]
                             /\ curr_body_low <= prev_body_low
                             /\ curr_body_high >= prev_body_high
        bearish_engulfing == /\ prev["close"] > prev["open"]
                             /\ latest["close"] < latest["open"]
                             /\ curr_body_low <= prev_body_low
                             /\ curr_body_high >= prev_body_high
        near_ema == monitor_near_ema(latest)
        buy == IF main_uptrend /\ higher_uptrend
                  /\ (near_ema \/ (latest["rsi"] # NaN /\ latest["rsi"] < 40))
               THEN IF bullish_pin THEN LowerWickPinBar
                    ELSE IF bullish_engulfing THEN BullishEngulfingBar
                    ELSE ""
               ELSE ""
        sell == IF main_downtrend /\ higher_downtrend
                   /\ (near_ema \/ (latest["rsi"] # NaN /\ latest["rsi"] > 60))
                THEN IF bearish_pin THEN UpperWickPinBar
                     ELSE IF bearish_engulfing THEN BearishEngulfingBar
                     ELSE ""
                ELSE ""
        recent == Tail_n(df_15m, Min2(10, Len(df_15m.rows)))
        current_price == latest["close"]
        lows == {recent[i]["low"] : i \in 1..Len(recent)}
        highs == {recent[i]["high"] : i \in 1..Len(recent)}
    IN  IF sell # ""
        THEN LET stop == CHOOSE h \in highs : \A x \in highs : x <= h
                 risk == stop - current_price
             IN  [signal |-> Some("sell"), trigger |-> sell, entry |-> current_price,
                  stop_loss |-> stop, take_profit |-> current_price - risk * 2]
        ELSE IF buy # ""
        THEN LET stop == CHOOSE l \in lows : \A x \in lows : l <= x
                 risk == current_price - stop
             IN  [signal |-> Some("buy"), trigger |-> buy, entry |-> current_price,
                  stop_loss |-> stop, take_profit |-> current_price + risk * 2]
        ELSE NoSignal

----------------------------------------------------------------------------
(* SpecMonitor: the monitor and the dashboard analyse the same fetched bars *)

\* closes, in units of EmaScale: a step from 1898 to 1919 ends exactly 1 %
\* above the 20 EMA (1900), a step from 1877 to 1898 a little further, and
\* the steps from 1900 to 1919 and from 1919 to 1898 a little less than 1 %
\* above and below it
MonitorCloses == {1877, 1898, 1900, 1919}
\* the shapes of a bar closing at c units: flat, bullish and bearish pin,
\* bullish and bearish body; the previous bar has a small body
BarShapes == {"flat", "bullish_pin", "bearish_pin", "bullish", "bearish"}
PreviousShapes == {"small_bullish", "small_bearish"}
ShapedBar(shape, c) ==
    LET bar(o, h, l) == [k \in OhlcColumns |->
                            EmaScale * (CASE k = "open" -> c + o
                                          [] k = "high" -> c + h
                                          [] k = "low" -> c + l
                                          [] OTHER -> c)]
    IN  CASE shape = "flat" -> bar(0, 0, 0)
          [] shape = "bullish_pin" -> bar(-3, 1, -10)
          [] shape = "bearish_pin" -> bar(3, 10, -1)
          [] shape = "bullish" -> bar(-30, 1, -31)
          [] shape = "small_bullish" -> bar(-10, 1, -11)
          [] shape = "small_bearish" -> bar(10, 11, -1)
          [] OTHER -> bar(30, 31, -1)
\* the 4-hour aggregate of a 1-hour history whose rows were all dropped by
\* dropna: the columns are there, the rows are not.  NoFrame stands for the
\* aggregate of an empty 1-hour history
DroppedFrame == [columns |-> OhlcColumns, rows |-> <<>>]
\* the 15-minute history: two bars, one bar, or empty
MonitorMainFrames ==
    {[columns |-> OhlcColumns,
      rows |-> <<ShapedBar(s1, c1), ShapedBar(s2, c2)>>] :
        s1 \in PreviousShapes, s2 \in BarShapes,
        c1 \in MonitorCloses, c2 \in MonitorCloses}
    \cup {[columns |-> OhlcColumns, rows |-> <<ShapedBar("bullish_pin", c)>>] :
            c \in MonitorCloses}
    \cup {NoFrame}
\* the 4-hour aggregate of the 1-hour history
MonitorHigherFrames ==
    {[columns |-> OhlcColumns,
      rows |-> <<ShapedBar("flat", c1), ShapedBar("flat", c2)>>] :
        c1 \in MonitorCloses, c2 \in {1898}}
    \cup {NoFrame, DroppedFrame}

\* str(e) of the exception fetch_stock_data raises on an empty history
FetchError == "data fetch error"
\* app.analyze_ticker on the 15-minute history and the 4-hour aggregate.
\* fetch_stock_data raises when a history is empty (the 15-minute one, or the
\* 1-hour one behind the aggregate), and the except clause returns the failure
\* dict, which has no signal.  Otherwise add_indicators runs on both frames,
\* detect_patterns on the main one, then generate_signal, which returns its
\* initial dict when the aggregate has no rows left
analyze_ticker(history_15m, aggregate_4h) ==
    IF Empty(history_15m) \/ aggregate_4h = NoFrame
    THEN [success |-> FALSE, error |-> FetchError, signal |-> None]
    ELSE [success |-> TRUE, error |-> "",
          signal |-> Some(generate_signal(
                             detect_patterns(add_indicators(history_15m)),
                             add_indicators(aggregate_4h)))]

InitMonitor ==
    /\ pc = "fetched_bars"
    /\ fetched_15m \in MonitorMainFrames
    /\ fetched_4h \in MonitorHigherFrames
    /\ monitor_signal = None
    /\ dashboard_signal = None
    /\ ExceptMonitorIdle

\* monitor.main: result = check_signal(ticker)
CheckSignal ==
    /\ pc = "fetched_bars"
    /\ monitor_signal = None
    /\ monitor_signal' = Some(check_signal(fetched_15m, fetched_4h))
    /\ UNCHANGED <<pc, fetched_15m, fetched_4h, dashboard_signal, exceptMonitorVars>>

\* app.main: result = analyze_ticker(ticker)
AnalyzeTicker ==
    /\ pc = "fetched_bars"
    /\ dashboard_signal = None
    /\ dashboard_signal' = Some(analyze_ticker(fetched_15m, fetched_4h))
    /\ UNCHANGED <<pc, fetched_15m, fetched_4h, monitor_signal, exceptMonitorVars>>

NextMonitor == CheckSignal \/ AnalyzeTicker

SpecMonitor == InitMonitor /\ [][NextMonitor]_vars

----------------------------------------------------------------------------
(* The core operations as calls on DataFrame objects.  A frame is an object
   on the heap frames; the caller and the callee hold references to it, and
   an assignment df[name] = ... or df.iloc[i, j] = ... writes the object the
   name df refers to *)

\* mutant: df = df, the name stays bound to the caller's object
copy_frame_alias(h, ref) == [frames |-> h, ref |-> ref]

\* df = df.copy(): a new object with the same bars and columns, and the
\* reference to it
copy_frame(h, ref) == [frames |-> Append(h, h[ref]), ref |-> Len(h) + 1]

\* df[name] = series on the object at ref
assign_column(h, ref, name, series) ==
    [h EXCEPT ![ref] =
        [columns |-> @.columns \cup {name},
         rows |-> [i \in 1..Len(@.rows) |->
                     [c \in DOMAIN @.rows[i] \cup {name} |->
                         IF c = name THEN series[i] ELSE @.rows[i][c]]]]]

\* df.iloc[i, df.columns.get_loc(name)] = value on the object at ref
assign_cell(h, ref, i, name, value) ==
    [h EXCEPT ![ref].rows[i][name] = value]

\* the right-hand sides of the four assignments of add_indicators, read from
\* the object df refers to, which has a close column
indicator_series(frame, name) ==
    LET ema_20 == calculate_ema(CloseOf(frame), Ema20Period)
    IN  CASE name = "ema_20" -> [i \in 1..Len(frame.rows) |-> Cell(ema_20[i])]
          [] name = "ema_200" ->
                [i \in 1..Len(frame.rows) |->
                    Cell(calculate_ema(CloseOf(frame), Ema200Period)[i])]
          [] name = "rsi" ->
                [i \in 1..Len(frame.rows) |->
                    FloatCell(calculate_rsi(CloseOf(frame), RsiPeriod)[i])]
          [] OTHER ->
                [i \in 1..Len(frame.rows) |->
                    Frac((frame.rows[i]["close"] * ema_20[i].den - ema_20[i].num) * 100,
                         ema_20[i].num)]

\* the assignments of add_indicators, in their order
IndicatorOrder == <<"ema_20", "ema_200", "rsi", "ema_20_distance">>
\* the two label columns detect_patterns initialises to "none"
LabelOrder == <<"pin_bar", "engulfing">>
\* the statement after the assignment of column name
AfterAssignment(order, name) ==
    LET k == CHOOSE j \in 1..Len(order) : order[j] = name
    IN  IF k < Len(order) THEN order[k + 1] ELSE "done"

\* calculate_risk_reward raises at df.iloc[-1]['close'] on a frame without
\* rows (IndexError) or without a close column (KeyError), after recent was
\* created
calculate_risk_reward_raises(frame) ==
    Len(frame.rows) = 0 \/ "close" \notin frame.columns

\* recent = df.tail(lookback): a new object holding the last rows
tail_frame(frame, n) ==
    [columns |-> frame.columns, rows |-> Tail_n(frame, Min2(n, Len(frame.rows)))]

----------------------------------------------------------------------------
(* SpecCalls: one call of a core operation on the frames of a caller *)

\* fetched frames of up to two bars, as in SpecMonitor, and a frame with the
\* price columns and no bar.  NoFrame, which has no close column, is among
\* them: add_indicators raises on it, so it is an argument of add_indicators
\* only
RawMainFrames == MonitorMainFrames \cup {DroppedFrame}
RawHigherFrames == MonitorHigherFrames
\* the frames add_indicators returns a frame for
WithClose(fs) == {f \in fs : ~add_indicators_raises(f)}

CoreOperations == {"add_indicators", "detect_patterns", "generate_signal",
                   "calculate_risk_reward"}

\* the frames each operation is given along app.analyze_ticker, where
\* add_indicators has returned before detect_patterns, generate_signal and
\* calculate_risk_reward are called: the caller holds the main frame as
\* object 1 and, for generate_signal, the higher frame as object 2
InitCalls ==
    /\ pc = "call_args"
    /\ call \in CoreOperations
    /\ \/ /\ call = "add_indicators"
          /\ \E raw \in RawMainFrames : frames = <<raw>>
       \/ /\ call = "detect_patterns"
          /\ \E raw \in WithClose(RawMainFrames) : frames = <<add_indicators(raw)>>
       \/ /\ call = "calculate_risk_reward"
          /\ \E raw \in WithClose(RawMainFrames) :
                frames = <<detect_patterns(add_indicators(raw))>>
       \/ /\ call = "generate_signal"
          /\ \E raw \in WithClose(RawMainFrames),
                raw_higher \in WithClose(RawHigherFrames) :
                frames = <<detect_patterns(add_indicators(raw)),
                           add_indicators(raw_higher)>>
    /\ arg_main = 1
    /\ arg_higher = IF call = "generate_signal" THEN 2 ELSE 0
    /\ local_df = 0
    /\ loop_i = 0
    /\ ret = None
    /\ ExceptCallIdle

\* add_indicators(df) is entered: df = df.copy()
CallAddIndicators ==
    /\ pc = "call_args" /\ call = "add_indicators"
    /\ LET c == copy_frame(frames, arg_main)
       IN  frames' = c.frames /\ local_df' = c.ref
    /\ pc' = IndicatorOrder[1]
    /\ UNCHANGED <<call, arg_main, arg_higher, loop_i, ret, exceptCallVars>>

\* df['ema_20'] = ..., df['ema_200'] = ..., df['rsi'] = ... and
\* df['ema_20_distance'] = ..., one assignment a step; df['close'] raises
\* KeyError when the column is missing, and nothing is assigned or returned
AssignIndicator ==
    /\ call = "add_indicators"
    /\ \E k \in 1..Len(IndicatorOrder) :
        LET name == IndicatorOrder[k]
        IN
          /\ pc = name
          /\ IF add_indicators_raises(frames[local_df])
             THEN /\ frames' = frames
                  /\ ret' = Some(Raised)
                  /\ pc' = "call_raised"
             ELSE /\ frames' = assign_column(frames, local_df, name,
                                             indicator_series(frames[local_df], name))
                  /\ ret' = ret
                  /\ pc' = IF AfterAssignment(IndicatorOrder, name) = "done"
                           THEN "return_df"
                           ELSE AfterAssignment(IndicatorOrder, name)
    /\ UNCHANGED <<call, arg_main, arg_higher, local_df, loop_i, exceptCallVars>>

\* detect_patterns(df) is entered: df = df.copy()
CallDetectPatterns ==
    /\ pc = "call_args" /\ call = "detect_patterns"
    /\ LET c == copy_frame(frames, arg_main)
       IN  frames' = c.frames /\ local_df' = c.ref
    /\ pc' = LabelOrder[1]
    /\ UNCHANGED <<call, arg_main, arg_higher, loop_i, ret, exceptCallVars>>

\* df['pin_bar'] = "none" and df['engulfing'] = "none"; range(1, len(df))
\* starts at the second bar
AssignNone ==
    /\ call = "detect_patterns"
    /\ \E k \in 1..Len(LabelOrder) :
        LET name == LabelOrder[k]
        IN
          /\ pc = name
          /\ frames' = assign_column(frames, local_df, name,
                                     [i \in 1..Len(frames[local_df].rows) |-> "none"])
          /\ IF AfterAssignment(LabelOrder, name) # "done"
             THEN pc' = AfterAssignment(LabelOrder, name) /\ loop_i' = loop_i
             ELSE /\ loop_i' = 2
                  /\ pc' = IF Len(frames[local_df].rows) >= 2 THEN "loop"
                           ELSE "return_df"
    /\ UNCHANGED <<call, arg_main, arg_higher, local_df, ret, exceptCallVars>>

\* one pass of the loop: the two labels of bar i are written with iloc
LabelBar ==
    /\ pc = "loop"
    /\ LET df_rows == frames[local_df].rows
           pin_type == is_pin_bar(df_rows[loop_i], WickRatio)
           eng_type == is_engulfing(df_rows[loop_i], df_rows[loop_i - 1])
       IN  frames' = assign_cell(
                         assign_cell(frames, local_df, loop_i, "pin_bar", pin_type),
                         local_df, loop_i, "engulfing", eng_type)
    /\ loop_i' = loop_i + 1
    /\ pc' = IF loop_i + 1 <= Len(frames[local_df].rows) THEN "loop" ELSE "return_df"
    /\ UNCHANGED <<call, arg_main, arg_higher, local_df, ret, exceptCallVars>>

\* return df
ReturnFrame ==
    /\ pc = "return_df"
    /\ ret' = Some(local_df)
    /\ pc' = "call_returned"
    /\ UNCHANGED <<call, frames, arg_main, arg_higher, local_df, loop_i, exceptCallVars>>

\* generate_signal reads the two frames (empty, iloc[-1]); on a signal it
\* calls calculate_risk_reward, whose df.tail(10) is a new object
CallGenerateSignal ==
    /\ pc = "call_args" /\ call = "generate_signal"
    /\ LET r == generate_signal(frames[arg_main], frames[arg_higher])
       IN  /\ ret' = Some(r)
           /\ frames' = IF r.risk_reward # None
                        THEN Append(frames, tail_frame(frames[arg_main], DefaultLookback))
                        ELSE frames
    /\ pc' = "call_returned"
    /\ UNCHANGED <<call, arg_main, arg_higher, local_df, loop_i, exceptCallVars>>

\* recent = df.tail(lookback) is a new object, which is only read; then
\* df.iloc[-1] raises on a frame without bars, or the dict is returned
CallCalculateRiskReward ==
    /\ pc = "call_args" /\ call = "calculate_risk_reward"
    /\ frames' = Append(frames, tail_frame(frames[arg_main], DefaultLookback))
    /\ IF calculate_risk_reward_raises(frames[arg_main])
       THEN ret' = Some(Raised) /\ pc' = "call_raised"
       ELSE /\ \E long \in BOOLEAN :
                  ret' = Some(calculate_risk_reward(frames[arg_main], long,
                                                    DefaultLookback, DefaultRrRatio))
            /\ pc' = "call_returned"
    /\ UNCHANGED <<call, arg_main, arg_higher, local_df, loop_i, exceptCallVars>>

NextCalls ==
    \/ CallAddIndicators
    \/ AssignIndicator
    \/ CallDetectPatterns
    \/ AssignNone
    \/ LabelBar
    \/ ReturnFrame
    \/ CallGenerateSignal
    \/ CallCalculateRiskReward

SpecCalls == InitCalls /\ [][NextCalls]_vars

----------------------------------------------------------------------------
(* database.py: the holdings in local (JSON / session) storage.  avg_cost is
   an exact fraction in lowest terms; created_at and updated_at are left out *)

RECURSIVE Gcd(_, _)
Gcd(a, b) == IF b = 0 THEN a ELSE Gcd(b, a % b)
Reduced(n, d) == Frac(n \div Gcd(n, d), d \div Gcd(n, d))

\* the index of the first holding of the ticker, 0 when there is none
IndexOf(holdings, ticker) ==
    IF \E i \in 1..Len(holdings) : holdings[i].ticker = ticker
    THEN SetMin({i \in 1..Len(holdings) : holdings[i].ticker = ticker})
    ELSE 0

\* list.pop(i)
Pop(xs, i) == SubSeq(xs, 1, i - 1) \o SubSeq(xs, i + 1, Len(xs))

\* ((h.quantity * h.avg_cost) + (quantity * avg_cost)) / total
WeightedAverage(held, held_cost, quantity, cost, total) ==
    Reduced(held * held_cost.num * cost.den + quantity * cost.num * held_cost.den,
            held_cost.den * cost.den * total)

\* mutant: the holding is appended even when the ticker is already held
add_or_update_holding_append(holdings, ticker, quantity, cost, stop, currency) ==
    Append(holdings, [id |-> Len(holdings) + 1, ticker |-> ticker,
                      quantity |-> quantity, avg_cost |-> cost,
                      stop_loss |-> stop, currency |-> currency])

\* Python truth of an optional number: None, 0 and 0.0 are false
Falsy(stop) == stop = None \/ stop = Some(0)

\* add_or_update_holding, local branch: the portfolio after the call.  On a
\* held ticker the stop is stop_loss or h.get('stop_loss'): a stop of None or
\* of 0 keeps the one already stored
add_or_update_holding(holdings, ticker, quantity, cost, stop, currency) ==
    LET existing_idx == IndexOf(holdings, ticker)
    IN  IF existing_idx # 0
        THEN LET h == holdings[existing_idx]
                 total == h.quantity + quantity
                 new_avg == IF total > 0
                            THEN WeightedAverage(h.quantity, h.avg_cost,
                                                 quantity, cost, total)
                            ELSE cost
             IN  [holdings EXCEPT ![existing_idx] =
                     [id |-> h.id, ticker |-> ticker, quantity |-> total,
                      avg_cost |-> new_avg,
                      stop_loss |-> IF Falsy(stop) THEN h.stop_loss ELSE stop,
                      currency |-> currency]]
        ELSE Append(holdings, [id |-> Len(holdings) + 1, ticker |-> ticker,
                               quantity |-> quantity, avg_cost |-> cost,
                               stop_loss |-> stop, currency |-> currency])

\* update_stop_loss, local branch
update_stop_loss(holdings, ticker, stop) ==
    LET i == IndexOf(holdings, ticker)
    IN  IF i = 0 THEN holdings
        ELSE [holdings EXCEPT ![i].stop_loss = Some(stop)]

\* mutant: a holding sold out stays in the list with quantity 0
sell_holding_keeps_entry(holdings, ticker, quantity) ==
    LET i == IndexOf(holdings, ticker)
    IN  IF i = 0 THEN holdings
        ELSE [holdings EXCEPT ![i].quantity = Max2(0, @ - quantity)]

\* sell_holding, local branch
sell_holding(holdings, ticker, quantity) ==
    LET i == IndexOf(holdings, ticker)
    IN  IF i = 0 THEN holdings
        ELSE LET new_qty == Max2(0, holdings[i].quantity - quantity)
             IN  IF new_qty = 0 THEN Pop(holdings, i)
                 ELSE [holdings EXCEPT ![i].quantity = new_qty]

\* delete_holding, local branch
delete_holding(holdings, ticker) ==
    SelectSeq(holdings, LAMBDA h : h.ticker # ticker)

----------------------------------------------------------------------------
(* SpecPortfolio: calls on the holdings of one session, local storage *)

MaxCalls == 4
MaxQuantity == 2
Quantities == 1..MaxQuantity
Costs == {Frac(100, 1), Frac(130, 1)}
StopLosses == {90}
\* stop_loss of add_or_update_holding is Optional[float]: None, 0 or a price
AddStopLosses == {None} \cup {Some(s) : s \in {0} \cup StopLosses}
Currencies == {"JPY", "USD"}

\* after init_database with no portfolio.json
InitPortfolio ==
    /\ pc = "portfolio"
    /\ portfolio = <<>>
    /\ portfolio_file = <<>>
    /\ db_call = None
    /\ db_calls = 0
    /\ ExceptDbIdle

\* every call ends by setting st.session_state.portfolio and writing it with
\* save_json_file
AddOrUpdateHolding ==
    /\ pc = "portfolio"
    /\ db_calls < MaxCalls
    /\ \E ticker \in Tickers2, quantity \in Quantities, cost \in Costs,
          stop \in AddStopLosses, currency \in Currencies :
         LET after == add_or_update_holding(portfolio, ticker, quantity, cost,
                                            stop, currency)
         IN  /\ portfolio' = after
             /\ portfolio_file' = after
             /\ db_call' = Some([op |-> "add_or_update_holding", ticker |-> ticker,
                                 quantity |-> quantity, avg_cost |-> cost])
    /\ db_calls' = db_calls + 1
    /\ UNCHANGED <<pc, exceptDbVars>>

UpdateStopLoss ==
    /\ pc = "portfolio"
    /\ db_calls < MaxCalls
    /\ \E ticker \in Tickers2, stop \in StopLosses :
         LET after == update_stop_loss(portfolio, ticker, stop)
         IN  /\ portfolio' = after
             /\ portfolio_file' = after
             /\ db_call' = Some([op |-> "update_stop_loss", ticker |-> ticker])
    /\ db_calls' = db_calls + 1
    /\ UNCHANGED <<pc, exceptDbVars>>

SellHolding ==
    /\ pc = "portfolio"
    /\ db_calls < MaxCalls
    /\ \E ticker \in Tickers2, quantity \in Quantities :
         LET after == sell_holding(portfolio, ticker, quantity)
         IN  /\ portfolio' = after
             /\ portfolio_file' = after
             /\ db_call' = Some([op |-> "sell_holding", ticker |-> ticker,
                                 quantity |-> quantity])
    /\ db_calls' = db_calls + 1
    /\ UNCHANGED <<pc, exceptDbVars>>

DeleteHolding ==
    /\ pc = "portfolio"
    /\ db_calls < MaxCalls
    /\ \E ticker \in Tickers2 :
         LET after == delete_holding(portfolio, ticker)
         IN  /\ portfolio' = after
             /\ portfolio_file' = after
             /\ db_call' = Some([op |-> "delete_holding", ticker |-> ticker])
    /\ db_calls' = db_calls + 1
    /\ UNCHANGED <<pc, exceptDbVars>>

NextPortfolio ==
    AddOrUpdateHolding \/ UpdateStopLoss \/ SellHolding \/ DeleteHolding

SpecPortfolio == InitPortfolio /\ [][NextPortfolio]_vars

----------------------------------------------------------------------------
(* Claims on generate_signal, read in the states after GenerateSignal *)

Range(seq) == {seq[i] : i \in 1..Len(seq)}
Evaluated == pc = "signal"
BothGiven == ~Empty(df_main) /\ ~Empty(df_higher)
MainTrend == analyze_trend(df_main)
HigherTrend == analyze_trend(df_higher)
BothUp == MainTrend = UPTREND /\ HigherTrend = UPTREND
BothDown == MainTrend = DOWNTREND /\ HigherTrend = DOWNTREND
Current == Last(df_main)

\* the latest close is within 1.0% of ema_20
WithinOnePercent == 100 * Abs(Current["close"] - Current["ema_20"]) <= Current["ema_20"]
RsiBelow40 == Current["rsi"] # NaN /\ Current["rsi"] < 40
RsiAbove60 == Current["rsi"] # NaN /\ Current["rsi"] > 60
SetupStage(long) == WithinOnePercent \/ (IF long THEN RsiBelow40 ELSE RsiAbove60)
BullishLabel == Current["pin_bar"] = "bullish_pin" \/ Current["engulfing"] = "bullish_engulfing"
BearishLabel == Current["pin_bar"] = "bearish_pin" \/ Current["engulfing"] = "bearish_engulfing"
TriggerStage(long) == IF long THEN BullishLabel ELSE BearishLabel
BullishNames == {LowerWickPinBar, BullishEngulfingBar}
BearishNames == {UpperWickPinBar, BearishEngulfingBar}

\* C1: a long environment is found only when both trends are uptrend, a short
\* one only when both are downtrend; every other pair of trends ends the
\* evaluation with signal none, setup false, empty trigger, null risk_reward
\* and no setup or trigger line.
C1_Environment ==
    Evaluated =>
        /\ (LineLongEnv \in Range(result.details)) <=> BothUp
        /\ (LineShortEnv \in Range(result.details)) <=> BothDown
        /\ (~BothUp /\ ~BothDown) =>
              /\ result.signal = NONE
              /\ result.setup = FALSE
              /\ result.trigger = ""
              /\ result.risk_reward = None
              /\ result.details = IF BothGiven THEN <<LineUnclear>> ELSE <<>>

\* main uptrend, higher downtrend, the latest bar would pass setup and trigger
C1_Witness ==
    /\ Evaluated /\ BothGiven
    /\ MainTrend = UPTREND /\ HigherTrend = DOWNTREND
    /\ SetupStage(TRUE) /\ TriggerStage(TRUE)
    /\ result.signal = NONE /\ result.details = <<LineUnclear>>

\* C2: the signal is long (short) exactly when environment, setup and
\* trigger all passed for that direction; then trigger names the pattern and
\* risk_reward is present; with signal none risk_reward is null and trigger
\* is empty.
C2_SignalIffAllStages ==
    Evaluated =>
        /\ result.signal = LONG <=> (BothGiven /\ BothUp /\ SetupStage(TRUE) /\ TriggerStage(TRUE))
        /\ result.signal = SHORT <=> (BothGiven /\ BothDown /\ SetupStage(FALSE) /\ TriggerStage(FALSE))
        /\ result.signal = LONG => result.trigger \in BullishNames /\ result.risk_reward # None
        /\ result.signal = SHORT => result.trigger \in BearishNames /\ result.risk_reward # None
        /\ result.signal = NONE => result.risk_reward = None /\ result.trigger = ""

\* a long environment with a bullish pattern on the latest bar and no setup
C2_Witness ==
    /\ Evaluated /\ BothGiven /\ BothUp
    /\ ~SetupStage(TRUE) /\ TriggerStage(TRUE)
    /\ result.signal = NONE /\ result.risk_reward = None

\* C3: setup is a logical OR: for long, close within 1.0% of ema_20 or
\* RSI < 40; for short, the same band or RSI > 60.
C3_SetupIsOr ==
    (pc # "indicators" /\ ~Empty(df_main)) =>
        /\ check_setup(Current, TRUE) <=> (WithinOnePercent \/ RsiBelow40)
        /\ check_setup(Current, FALSE) <=> (WithinOnePercent \/ RsiAbove60)
        /\ (Evaluated /\ BothGiven /\ BothUp) => (result.setup <=> (WithinOnePercent \/ RsiBelow40))
        /\ (Evaluated /\ BothGiven /\ BothDown) => (result.setup <=> (WithinOnePercent \/ RsiAbove60))

\* long environment, outside the band, RSI below 40: the RSI alone is enough
C3_Witness ==
    /\ Evaluated /\ BothGiven /\ BothUp
    /\ ~WithinOnePercent /\ RsiBelow40
    /\ result.setup = TRUE

\* C4: the long trigger fires exactly on bullish_pin or bullish_engulfing, the
\* short trigger exactly on bearish_pin or bearish_engulfing; a long signal
\* carries a bullish pattern name and a short signal a bearish one.
C4_TriggerDirection ==
    (pc # "indicators" /\ ~Empty(df_main)) =>
        /\ check_trigger(Current, TRUE).ok <=> BullishLabel
        /\ check_trigger(Current, FALSE).ok <=> BearishLabel
        /\ (Evaluated /\ result.signal = LONG) => (BullishLabel /\ result.trigger \in BullishNames)
        /\ (Evaluated /\ result.signal = SHORT) => (BearishLabel /\ result.trigger \in BearishNames)

\* long environment and setup, a bearish pattern only: no signal
C4_Witness ==
    /\ Evaluated /\ BothGiven /\ BothUp /\ result.setup = TRUE
    /\ BearishLabel /\ ~BullishLabel
    /\ result.signal = NONE /\ result.trigger = ""

EnvLine(long) == IF long THEN LineLongEnv ELSE LineShortEnv
SetupLine(long) == IF long THEN LineLongSetup ELSE LineShortSetup
Narrative(long) ==
    IF ~SetupStage(long) THEN <<EnvLine(long)>>
    ELSE IF ~TriggerStage(long) THEN <<EnvLine(long), SetupLine(long)>>
    ELSE <<EnvLine(long), SetupLine(long), LineTrigger(result.trigger)>>
CheckLines(seq) == {i \in 1..Len(seq) : seq[i][1] = "check"}

\* C5: the narrative holds one checkmark line per passed stage, in the order
\* environment, setup, trigger, and nothing after the first failing stage.
C5_Narrative ==
    (Evaluated /\ BothGiven) =>
        /\ result.details = IF BothUp THEN Narrative(TRUE)
                            ELSE IF BothDown THEN Narrative(FALSE)
                            ELSE <<LineUnclear>>
        /\ \A i \in CheckLines(result.details) :
              result.details[i][2] = <<"environment", "setup", "trigger">>[i]

\* short environment, setup failed: the environment line alone
C5_Witness ==
    /\ Evaluated /\ BothGiven /\ BothDown /\ ~SetupStage(FALSE)
    /\ TriggerStage(FALSE)
    /\ result.details = <<LineShortEnv>>

\* the latest bar has the shape of a bullish pin
BullishPinShape ==
    LET body == Abs(Current["close"] - Current["open"])
        upper == Current["high"] - Max2(Current["open"], Current["close"])
        lower == Min2(Current["open"], Current["close"]) - Current["low"]
    IN  body > 0 /\ lower >= 2 * body /\ 2 * upper < body

\* C6: both series in uptrend and a latest main bar that is a bullish pin
\* within 1% of ema_20 give signal long, the pin bar as trigger and a
\* risk_reward with take_profit - entry = 2 * (entry - stop_loss).
C6_TextbookLong ==
    (/\ Evaluated /\ BothGiven
     /\ Current["ema_200"] # NaN /\ Current["close"] > Current["ema_200"]
     /\ Last(df_higher)["ema_200"] # NaN
     /\ Last(df_higher)["close"] > Last(df_higher)["ema_200"]
     /\ BullishPinShape /\ WithinOnePercent) =>
        /\ result.signal = LONG
        /\ result.trigger = LowerWickPinBar
        /\ result.risk_reward # None
        /\ LET rr == result.risk_reward[1]
           IN  rr.take_profit - rr.entry = 2 * (rr.entry - rr.stop_loss)

\* such a signal, with a stop below the entry
C6_Witness ==
    /\ Evaluated /\ BothGiven /\ BothUp /\ BullishPinShape /\ WithinOnePercent
    /\ result.signal = LONG
    /\ result.risk_reward # None
    /\ result.risk_reward[1].entry > result.risk_reward[1].stop_loss

----------------------------------------------------------------------------
(* Claims on calculate_risk_reward, read under SpecRR *)

RrDone == pc \in {"rr_done", "rr_sized"}
RR == risk_reward[1]
\* the trailing min(lookback, len) rows, the latest included
WindowSize == Min2(lookback, Len(df.rows))
Window == {i \in 1..Len(df.rows) : i > Len(df.rows) - WindowSize}
IsWindowLow(x) ==
    /\ \E i \in Window : df.rows[i]["low"] = x
    /\ \A i \in Window : df.rows[i]["low"] >= x
IsWindowHigh(x) ==
    /\ \E i \in Window : df.rows[i]["high"] = x
    /\ \A i \in Window : df.rows[i]["high"] <= x

\* C7: for long, entry is the latest close, stop_loss the lowest low of the
\* trailing min(lookback, len) bars, risk = entry - stop_loss and
\* take_profit = entry + risk * ratio.
C7_LongRiskReward ==
    (RrDone /\ is_long) =>
        /\ RR.entry = df.rows[Len(df.rows)]["close"]
        /\ IsWindowLow(RR.stop_loss)
        /\ RR.risk = RR.entry - RR.stop_loss
        /\ RR.take_profit = RR.entry + RR.risk * rr_ratio

\* window low 90 on an earlier bar of the window, entry 100, ratio 2.0:
\* stop_loss 90, risk 10, take_profit 120
C7_Witness ==
    /\ RrDone /\ is_long /\ rr_ratio = 2 /\ WindowSize >= 2
    /\ df.rows[Len(df.rows)]["low"] = 100
    /\ RR.entry = 100 /\ RR.stop_loss = 90 /\ RR.risk = 10 /\ RR.take_profit = 120

\* C8: for short, stop_loss is the highest high of the trailing window,
\* risk = stop_loss - entry and take_profit = entry - risk * ratio.
C8_ShortRiskReward ==
    (RrDone /\ ~is_long) =>
        /\ RR.entry = df.rows[Len(df.rows)]["close"]
        /\ IsWindowHigh(RR.stop_loss)
        /\ RR.risk = RR.stop_loss - RR.entry
        /\ RR.take_profit = RR.entry - RR.risk * rr_ratio

\* a short whose window is shorter than the frame, with a higher high
\* before the window
C8_Witness ==
    /\ RrDone /\ ~is_long /\ rr_ratio = 2 /\ WindowSize < Len(df.rows)
    /\ df.rows[1]["high"] = 110
    /\ RR.entry = 90 /\ RR.stop_loss = 100 /\ RR.risk = 10 /\ RR.take_profit = 70

----------------------------------------------------------------------------
(* Claims on calculate_position_size *)

\* floor(balance * risk_fraction / distance), risk_fraction = risk_percent / 100
FloorShares(distance) == (account_balance * risk_percent) \div (100 * distance)

\* C9: the size is floor(balance * risk_fraction / (entry - stop_loss)) when
\* entry > stop_loss, never negative, and 0 whenever entry <= stop_loss.
C9_PositionSize ==
    pc = "size_done" =>
        /\ entry_price > stop_loss_price =>
              position_size = FloorShares(entry_price - stop_loss_price)
        /\ entry_price <= stop_loss_price => position_size = 0
        /\ position_size >= 0

\* balance 1,000,000, fraction 0.02, entry 100, stop 100: size 0
C9_Witness ==
    /\ pc = "size_done"
    /\ account_balance = 1000000 /\ risk_percent = 2
    /\ entry_price = 100 /\ stop_loss_price = 100
    /\ position_size = 0

\* C10 as stated: for a short's entry and stop_loss (stop above entry) the
\* size is floor(balance * risk_fraction / (stop_loss - entry)).
C10_ShortSymmetric ==
    (pc = "rr_sized" /\ ~is_long /\ stop_loss_price > entry_price) =>
        position_size = FloorShares(stop_loss_price - entry_price)

\* C10 amended: for a short's entry and stop_loss (stop at or above entry)
\* the size is 0; floor(balance * risk_fraction / (stop_loss - entry)) is the
\* size of the mirrored long, with the two prices exchanged.
C10_ShortIsZero ==
    (pc = "rr_sized" /\ ~is_long) =>
        /\ stop_loss_price >= entry_price
        /\ position_size = 0
        /\ stop_loss_price > entry_price =>
              calculate_position_size(account_balance, risk_percent,
                                      stop_loss_price, entry_price)
                  = FloorShares(stop_loss_price - entry_price)

\* a short with the stop above the entry whose mirrored long has a size
C10_Witness ==
    /\ pc = "rr_sized" /\ ~is_long /\ stop_loss_price > entry_price
    /\ position_size = 0
    /\ FloorShares(stop_loss_price - entry_price) > 0

----------------------------------------------------------------------------
(* Claims on calculate_max_shares, read in the states after CalculateMaxShares *)

SharesDone == pc = "shares_done"
\* the whole shares the cash pays for: k * price <= cash < (k + 1) * price
Affordable(k) == k >= 0 /\ k * share_price <= cash /\ cash < (k + 1) * share_price

\* C11: calculate_max_shares returns 0 when price <= 0; for cash >= 0,
\* price > 0 and unit >= 1 it returns floor(cash / price) floored to a
\* multiple of unit: a non-negative multiple of unit whose cost does not
\* exceed cash, while one more unit would cost more than cash.
C11_MaxShares ==
    SharesDone =>
        /\ share_price <= 0 => max_shares = 0
        /\ share_price > 0 =>
              /\ max_shares >= 0
              /\ max_shares % unit = 0
              /\ max_shares * share_price <= cash
              /\ (max_shares + unit) * share_price > cash
              /\ \E k \in 0..cash :
                    Affordable(k) /\ max_shares <= k /\ k < max_shares + unit

\* cash 11 at price 2 pays for 5 shares, 3 of them in lots of 3
C11_Witness ==
    /\ SharesDone /\ cash = 11 /\ share_price = 2 /\ unit = 3
    /\ max_shares = 3

----------------------------------------------------------------------------
(* Claims on analyze_trend, read in the states after AnalyzeTrend *)

TrendDone == pc = "trend_done"
TrendEmpty == Len(trend_df.rows) = 0 \/ trend_df.columns = {}
Ema200Missing == "ema_200" \notin trend_df.columns
LatestBar == trend_df.rows[Len(trend_df.rows)]
Ema200Undefined == ~TrendEmpty /\ ~Ema200Missing /\ LatestBar["ema_200"] = NaN
\* the latest bar has a defined close and a defined ema_200
LatestComparable ==
    /\ ~TrendEmpty /\ ~Ema200Missing /\ "close" \in trend_df.columns
    /\ LatestBar["ema_200"] # NaN /\ LatestBar["close"] # NaN
\* the latest close is NaN, the latest ema_200 a price
CloseUndefined ==
    /\ ~TrendEmpty /\ ~Ema200Missing /\ "close" \in trend_df.columns
    /\ LatestBar["ema_200"] # NaN /\ LatestBar["close"] = NaN

\* C12: analyze_trend classifies from the latest bar only: uptrend iff its
\* close > ema_200, downtrend iff its close < ema_200, neutral when they are
\* equal; and it returns neutral, without raising, when the series is empty,
\* when the ema_200 column is missing or when the latest ema_200 is NaN.  A
\* NaN close is neither above nor below the ema_200: neutral.
C12_TrendFromLatestBar ==
    TrendDone =>
        /\ LatestComparable =>
              /\ trend_state = Some(UPTREND) <=> LatestBar["close"] > LatestBar["ema_200"]
              /\ trend_state = Some(DOWNTREND) <=> LatestBar["close"] < LatestBar["ema_200"]
              /\ trend_state = Some(NEUTRAL) <=> LatestBar["close"] = LatestBar["ema_200"]
        /\ (TrendEmpty \/ Ema200Missing \/ Ema200Undefined) =>
              trend_state = Some(NEUTRAL)
        /\ CloseUndefined => trend_state = Some(NEUTRAL)

\* the first bar closes above its ema_200, the latest below: downtrend
C12_Witness ==
    /\ TrendDone /\ LatestComparable /\ Len(trend_df.rows) = 2
    /\ trend_df.rows[1]["ema_200"] # NaN
    /\ trend_df.rows[1]["close"] > trend_df.rows[1]["ema_200"]
    /\ LatestBar["close"] < LatestBar["ema_200"]
    /\ trend_state = Some(DOWNTREND)

----------------------------------------------------------------------------
(* Claims on is_pin_bar and is_engulfing, read in the states of SpecBar *)

PinDone == pc \in {"bar_pin", "bar_done"}
EngulfingDone == pc = "bar_done"
Curr == curr_bar[1]
Prev == prev_bar[1]

\* the candle of a row, from its four prices
BodyTop(r) == IF r["close"] >= r["open"] THEN r["close"] ELSE r["open"]
BodyBottom(r) == IF r["close"] >= r["open"] THEN r["open"] ELSE r["close"]
Body(r) == BodyTop(r) - BodyBottom(r)
UpperWick(r) == r["high"] - BodyTop(r)
LowerWick(r) == BodyBottom(r) - r["low"]
Bullish(r) == r["close"] > r["open"]
Bearish(r) == r["close"] < r["open"]

\* lower wick at least twice the body, upper wick under half the body
BullishPinBar ==
    /\ Body(Curr) > 0 /\ LowerWick(Curr) >= 2 * Body(Curr)
    /\ 2 * UpperWick(Curr) < Body(Curr)
\* upper wick at least twice the body, lower wick under half the body
BearishPinBar ==
    /\ Body(Curr) > 0 /\ UpperWick(Curr) >= 2 * Body(Curr)
    /\ 2 * LowerWick(Curr) < Body(Curr)

\* C13: is_pin_bar answers bullish_pin iff body > 0, lower_wick >= 2 * body
\* and upper_wick < body / 2; bearish_pin iff body > 0, upper_wick >= 2 * body
\* and lower_wick < body / 2; none otherwise.
C13_PinBar ==
    PinDone =>
        /\ pin_label = Some("bullish_pin") <=> BullishPinBar
        /\ pin_label = Some("bearish_pin") <=> BearishPinBar
        /\ pin_label = Some("none") <=> ~BullishPinBar /\ ~BearishPinBar

\* a bearish pin whose upper wick is exactly twice its body
C13_Witness ==
    /\ PinDone /\ Body(Curr) = 1 /\ UpperWick(Curr) = 2 /\ LowerWick(Curr) = 0
    /\ pin_label = Some("bearish_pin")

\* the body of the current bar reaches from at or below the previous body's
\* bottom to at or above its top
BodyContainsBody == BodyBottom(Curr) <= BodyBottom(Prev) /\ BodyTop(Curr) >= BodyTop(Prev)
BullishEngulfingShape == Bearish(Prev) /\ Bullish(Curr) /\ BodyContainsBody
BearishEngulfingShape == Bullish(Prev) /\ Bearish(Curr) /\ BodyContainsBody

\* C14: is_engulfing answers bullish_engulfing iff the previous bar is
\* bearish, the current bar is bullish and the current body contains the
\* previous body; bearish_engulfing is the mirror; none otherwise.  Wicks
\* play no part.
C14_Engulfing ==
    EngulfingDone =>
        /\ engulfing_label = Some("bullish_engulfing") <=> BullishEngulfingShape
        /\ engulfing_label = Some("bearish_engulfing") <=> BearishEngulfingShape
        /\ engulfing_label = Some("none") <=>
              ~BullishEngulfingShape /\ ~BearishEngulfingShape

\* a bullish engulfing whose previous bar's wicks reach beyond the current bar
C14_Witness ==
    /\ EngulfingDone /\ BullishEngulfingShape
    /\ Prev["high"] > Curr["high"] /\ Prev["low"] < Curr["low"]
    /\ engulfing_label = Some("bullish_engulfing")

ZeroRange(r) == r["open"] = r["high"] /\ r["high"] = r["low"] /\ r["low"] = r["close"]

\* C15: a bar whose body is 0 is never labelled a pin bar, whatever its
\* wicks; a bar with open = high = low = close is labelled neither a pin bar
\* nor an engulfing pattern, whatever the previous bar.
C15_FlatBarsUnlabelled ==
    /\ PinDone /\ Body(Curr) = 0 => pin_label = Some("none")
    /\ EngulfingDone /\ ZeroRange(Curr) =>
          pin_label = Some("none") /\ engulfing_label = Some("none")

\* a doji with a long lower wick and no upper wick after a bearish bar
C15_Witness ==
    /\ EngulfingDone /\ Body(Curr) = 0 /\ LowerWick(Curr) >= 2
    /\ UpperWick(Curr) = 0 /\ Bearish(Prev)
    /\ pin_label = Some("none") /\ engulfing_label = Some("none")

\* the label when the bearish shape is tested before the bullish one
PinBearishFirst ==
    IF BearishPinBar THEN "bearish_pin"
    ELSE IF BullishPinBar THEN "bullish_pin"
    ELSE "none"
EngulfingBearishFirst ==
    IF BearishEngulfingShape THEN "bearish_engulfing"
    ELSE IF BullishEngulfingShape THEN "bullish_engulfing"
    ELSE "none"

\* C17: the bullish and the bearish shape of one category exclude each
\* other: no bar has both pin shapes and no pair of bars has both engulfing
\* shapes, so the label is the same when the bearish test is made first.
C17_VariantsExclusive ==
    /\ PinDone =>
          /\ ~(BullishPinBar /\ BearishPinBar)
          /\ pin_label = Some(PinBearishFirst)
    /\ EngulfingDone =>
          /\ ~(BullishEngulfingShape /\ BearishEngulfingShape)
          /\ engulfing_label = Some(EngulfingBearishFirst)

\* both wicks are at least twice the body: neither pin shape, label none
C17_Witness ==
    /\ EngulfingDone /\ Body(Curr) > 0
    /\ LowerWick(Curr) >= 2 * Body(Curr) /\ UpperWick(Curr) >= 2 * Body(Curr)
    /\ pin_label = Some("none")

----------------------------------------------------------------------------
(* Claims on detect_patterns, read in the states after DetectPatternsOhlc *)

PatternsDone == pc = "patterns_done"
Labelled == labelled[1]
\* the frame of the two bars i - 1 and i alone
PairFrame(i) == [columns |-> OhlcColumns, rows |-> <<ohlc.rows[i - 1], ohlc.rows[i]>>]
LabelsOf(row) == <<row["pin_bar"], row["engulfing"]>>

\* C16: detect_patterns labels the first bar none in both columns, and the
\* labels of a later bar i are those it gets in the frame made of the bars
\* i - 1 and i alone.
C16_LabelsLocal ==
    PatternsDone =>
        /\ Len(Labelled.rows) = Len(ohlc.rows)
        /\ Len(ohlc.rows) >= 1 => LabelsOf(Labelled.rows[1]) = <<"none", "none">>
        /\ \A i \in 2..Len(ohlc.rows) :
              LabelsOf(Labelled.rows[i]) = LabelsOf(detect_patterns(PairFrame(i)).rows[2])

\* three bars: the first has the shape of a bullish pin and stays none, the
\* third engulfs the second
C16_Witness ==
    /\ PatternsDone /\ Len(ohlc.rows) = 3
    /\ Body(ohlc.rows[1]) > 0
    /\ LowerWick(ohlc.rows[1]) >= 2 * Body(ohlc.rows[1])
    /\ UpperWick(ohlc.rows[1]) = 0
    /\ LabelsOf(Labelled.rows[1]) = <<"none", "none">>
    /\ Labelled.rows[3]["engulfing"] = "bullish_engulfing"

----------------------------------------------------------------------------
(* Claims on calculate_rsi and calculate_ema, read in the states of SpecSeries *)

RsiDone == rsi_series # None
Rsi == rsi_series[1]
\* the smoothed average loss at bar i is 0
AvgLossZero(i) == ewm_mean(Loss(closes), RsiPeriod)[i].num = 0
Hundred(x) == x.kind = "num" /\ x.num = 100 * x.den
WithinBounds(x) == x.kind = "num" /\ 0 <= x.num /\ x.num <= 100 * x.den

\* C18: calculate_rsi gives, at every bar from the first on, a defined value
\* within [0, 100], never NaN nor infinity, and exactly 100 wherever the
\* smoothed average loss is 0: first bar, all-gains and flat series included.
C18_RsiDefinedEverywhere ==
    RsiDone =>
        \A i \in 1..Len(closes) :
            /\ WithinBounds(Rsi[i])
            /\ AvgLossZero(i) => Hundred(Rsi[i])

EmaDone == ema_series # None
Ema == ema_series[1]
Constant(xs) == \A i \in 1..Len(xs) : xs[i] = xs[1]

\* C19: calculate_ema returns a series as long as its input with
\* ema[0] = price[0] and ema[i] = a * price[i] + (1 - a) * ema[i-1],
\* a = 2 / (span + 1); ema[i] is the last value of the EMA of the prices up
\* to i; the EMA of a constant series is that constant at every bar.
C19_EmaRecursion ==
    EmaDone =>
        /\ Len(Ema) = Len(closes)
        /\ Len(closes) >= 1 => FracEq(Ema[1], Frac(closes[1], 1))
        /\ \A i \in 2..Len(closes) :
              FracEq(Ema[i],
                     Frac(2 * closes[i] * Ema[i - 1].den + (period - 1) * Ema[i - 1].num,
                          (period + 1) * Ema[i - 1].den))
        /\ \A i \in 1..Len(closes) :
              FracEq(Ema[i], calculate_ema(SubSeq(closes, 1, i), period)[i])
        /\ Constant(closes) =>
              \A i \in 1..Len(closes) : FracEq(Ema[i], Frac(closes[1], 1))

\* span 20 on the closes 1, 2, 3: the second value is (2 * 2 + 19 * 1) / 21
C19_Witness ==
    /\ EmaDone /\ period = 20 /\ closes = <<1, 2, 3>>
    /\ Ema[2] = Frac(23, 21)
    /\ Ema[3] = Frac(563, 441)

----------------------------------------------------------------------------
(* Claims on insufficient data, read along the runs of SpecPipeline *)

IndicatorNames == {"ema_20", "ema_200", "rsi", "ema_20_distance"}
PatternNames == {"pin_bar", "engulfing"}
SameBars(before, after) ==
    /\ Len(after.rows) = Len(before.rows)
    /\ \A i \in 1..Len(before.rows) :
          \A c \in OhlcColumns : after.rows[i][c] = before.rows[i][c]

\* add_indicators returned: the same bars with the four indicator columns;
\* the only bar of a one-bar series has both EMAs at its close, distance 0
\* and the RSI marked NaN
IndicatorsReturned(before, after) ==
    /\ SameBars(before, after)
    /\ after.columns = before.columns \cup IndicatorNames
    /\ Len(before.rows) = 1 =>
          /\ after.rows[1]["ema_20"] = before.rows[1]["close"]
          /\ after.rows[1]["ema_200"] = before.rows[1]["close"]
          /\ after.rows[1]["rsi"] = NaN
          /\ after.rows[1]["ema_20_distance"].num = 0

\* detect_patterns returned: the same bars with the two label columns; a
\* one-bar series has both labels none
PatternsReturned(before, after) ==
    /\ SameBars(before, after)
    /\ after.columns = before.columns \cup PatternNames
    /\ Len(before.rows) = 1 =>
          after.rows[1]["pin_bar"] = "none" /\ after.rows[1]["engulfing"] = "none"

ShortSeries(frame) == Len(frame.rows) <= 1

InsufficientResult ==
    /\ result.signal = NONE /\ result.setup = FALSE /\ result.trigger = ""
    /\ result.risk_reward = None /\ result.details = <<>>

\* the steps of add_indicators and detect_patterns on short series
ShortSeriesReturned ==
    /\ (pc = "fetched" /\ pc' = "indicators" /\ ShortSeries(df_main)) =>
          IndicatorsReturned(df_main, df_main')
    /\ (pc = "fetched" /\ pc' = "indicators" /\ ShortSeries(df_higher)) =>
          IndicatorsReturned(df_higher, df_higher')
    /\ (pc = "indicators" /\ pc' = "patterns" /\ ShortSeries(df_main)) =>
          PatternsReturned(df_main, df_main')

\* C20: insufficient data is a result, not an exception: generate_signal
\* with an empty main or higher series returns signal none, setup false,
\* empty trigger, no risk_reward and an empty narrative; add_indicators and
\* detect_patterns return the bars of an empty or one-bar series with their
\* columns added.
C20_InsufficientData ==
    /\ [](pc = "signal" /\ (Empty(df_main) \/ Empty(df_higher)) => InsufficientResult)
    /\ [][ShortSeriesReturned]_vars

\* a one-bar main series through the whole pipeline with an empty higher series
C20_Witness ==
    /\ pc = "signal" /\ Len(df_main.rows) = 1 /\ Empty(df_higher)
    /\ df_main.rows[1]["rsi"] = NaN
    /\ df_main.rows[1]["pin_bar"] = "none"
    /\ InsufficientResult

----------------------------------------------------------------------------
(* Claims on the caller's frames, read along the runs of SpecCalls *)

Returned == pc = "call_returned"
\* the positions of a call, from its arguments to its return
CallPositions ==
    {"call_args", "loop", "return_df", "call_returned", "call_raised"}
        \cup IndicatorNames \cup PatternNames
CallerHolds(ref) == ref # 0

\* no step of a call rebinds the caller's references or writes the objects
\* they refer to
CallerFramesKept ==
    pc \in CallPositions =>
        /\ arg_main' = arg_main /\ arg_higher' = arg_higher
        /\ frames'[arg_main] = frames[arg_main]
        /\ CallerHolds(arg_higher) => frames'[arg_higher] = frames[arg_higher]

\* the returned frame is another object than the caller's; it holds the
\* derived columns, the bars and columns of the caller's frame beside them,
\* and the caller's frame holds none of the derived columns
DerivedOnCopy ==
    /\ Returned /\ call = "add_indicators" =>
          /\ ret[1] # arg_main
          /\ frames[arg_main].columns \cap IndicatorNames = {}
          /\ frames[ret[1]] = add_indicators(frames[arg_main])
    /\ Returned /\ call = "detect_patterns" =>
          /\ ret[1] # arg_main
          /\ frames[arg_main].columns \cap PatternNames = {}
          /\ frames[ret[1]] = detect_patterns(frames[arg_main])

\* C21: no core operation mutates the series it is given: after
\* add_indicators, detect_patterns, generate_signal or calculate_risk_reward
\* returns, the caller's frames have the bars and the columns they had before
\* the call; the derived columns are on the returned copy only.
C21_InputsNotMutated == [][CallerFramesKept]_vars /\ []DerivedOnCopy

\* detect_patterns went through its loop on a two-bar frame and labelled the
\* second bar a pin bar on its copy; the caller's frame has no label column
C21_Witness ==
    /\ Returned /\ call = "detect_patterns" /\ Len(frames[arg_main].rows) = 2
    /\ ret[1] # arg_main
    /\ frames[ret[1]].rows[2]["pin_bar"] # "none"
    /\ "pin_bar" \notin frames[arg_main].columns
    /\ "ema_20" \in frames[arg_main].columns

----------------------------------------------------------------------------
(* Claims on interleaved evaluations, read in the states of SpecEvaluations *)

HasReturned(t) == evals[t].pc = "returned"
ResultOf(t) == heap[evals[t].ref]

\* C22: generate_signal keeps no state between calls: under any
\* interleaving of the evaluations of different tickers, the result returned
\* for a ticker is the one generate_signal gives on its two frames alone, and
\* it stays so while the other evaluations go on.
C22_Stateless ==
    \A t \in Tickers :
        HasReturned(t) =>
            ResultOf(t) = generate_signal(evals[t].main, evals[t].higher)

\* ticker 1 has returned a long signal while ticker 2, bound for a short
\* signal, is before its trigger step
C22_Witness ==
    /\ HasReturned(1) /\ ResultOf(1).signal = LONG
    /\ evals[2].pc = "short_trigger"
    /\ generate_signal(evals[2].main, evals[2].higher).signal = SHORT

----------------------------------------------------------------------------
(* Claims on check_and_notify, read in the session states *)

\* the alerts of one ticker, newest first, as positions in the history
AlertsOf(ticker) == {i \in 1..Len(history) : history[i].ticker = ticker}
\* j is the alert of the same ticker that came just before i
PreviousAlert(i, j) ==
    /\ i < j
    /\ history[i].ticker = history[j].ticker
    /\ \A k \in (i + 1)..(j - 1) : history[k].ticker # history[i].ticker

\* the session, between two calls or while a call is sending
InSession == pc \in {"session", "sending"}

\* C23 (as claimed): once a notification has been sent for a ticker, no further
\* notification is sent for that ticker during the following 30 minutes,
\* whatever signals are evaluated in between.
C23_Cooldown ==
    InSession =>
        \A i, j \in 1..Len(history) :
            PreviousAlert(i, j) =>
                history[i].timestamp - history[j].timestamp >= cooldown_minutes

\* last_signals and last_notification_time change for one ticker only, and
\* only in a call that sends a notification and then returns True
ChangesOnlyOnSend ==
    /\ (InSession /\ last_signals' # last_signals) =>
        /\ pc = "session" /\ pc' = "sending"
        /\ Len(history') = Len(history) + 1
        /\ \A t \in DOMAIN last_signals :
               t # history'[1].ticker => /\ t \in DOMAIN last_signals'
                                         /\ last_signals'[t] = last_signals[t]
        /\ last_signals'[history'[1].ticker]
               = IF history'[1].type = "buy" THEN LONG ELSE SHORT
    /\ (pc = "sending" /\ pc' = "session") =>
        /\ is_new_signal' = Some(TRUE)
        /\ last_signals' = last_signals /\ history' = history
AlertsAlternate ==
    InSession =>
        \A i, j \in 1..Len(history) :
            PreviousAlert(i, j) => history[i].type # history[j].type

\* C24: per ticker, two consecutive notifications never have the same signal
\* type, whatever time elapsed and whatever none evaluations or notifications
\* of other tickers came in between; last_signals changes only in a call that
\* sends a notification, and then only for the ticker notified.
C24_NoRepeatedType == []AlertsAlternate /\ [][ChangesOnlyOnSend]_vars
C24_Witness ==
    /\ pc = "session"
    /\ Len(history) = 3
    /\ history[1].ticker = history[3].ticker
    /\ history[2].ticker # history[1].ticker
    /\ history[1].timestamp - history[3].timestamp >= cooldown_minutes
    /\ history[1].type = "buy"
    /\ history[3].type = "sell"

----------------------------------------------------------------------------
(* Claims on NotificationManager; in SpecAlerts the clock counts the add_alert
   calls, and the k-th alert is stamped k - 1 *)

HistoryLatestFirst ==
    pc = "alerts" =>
        /\ Len(history) <= MaxHistory
        /\ Len(history) = Min2(now, MaxHistory)
        /\ \A i \in 1..Len(history) : history[i].timestamp = now - i
GetHistoryReturnsNewest ==
    (pc = "alerts" /\ shown' # shown) =>
        /\ history' = history
        /\ Len(shown'[1].alerts) = Min2(shown'[1].limit, Len(history))
        /\ \A i \in 1..Len(shown'[1].alerts) : shown'[1].alerts[i] = history[i]

\* C25: after any sequence of add_alert calls the history holds at most 50
\* alerts, the most recent ones, newest first; get_history(limit) returns the
\* newest min(limit, len) of them and leaves the history as it was.
C25_HistoryCapped == []HistoryLatestFirst /\ [][GetHistoryReturnsNewest]_vars
C25_Witness ==
    /\ pc = "alerts"
    /\ now > MaxHistory
    /\ Len(history) = MaxHistory
    /\ shown # None
    /\ shown[1].limit = DefaultLimit
    /\ Len(shown[1].alerts) = DefaultLimit
    /\ shown[1].alerts[1].timestamp = now - 1

----------------------------------------------------------------------------
(* Claims on check_and_run_scheduled_tasks, read in the session states *)

InWindow(scan) ==
    IF scan.kind = "morning"
    THEN hour(scan.at) = 8 /\ minute(scan.at) <= 4
    ELSE hour(scan.at) = 15 /\ minute(scan.at) >= 15 /\ minute(scan.at) <= 19
MarkerOf(kind) ==
    IF kind = "morning" THEN last_morning_scan ELSE last_afternoon_scan
\* the marker of a kind is the start of the latest scan of that kind, also
\* when that scan raised
MarkerRecorded ==
    \A i \in 1..Len(scans) :
        (\A j \in (i + 1)..Len(scans) : scans[j].kind # scans[i].kind)
            => MarkerOf(scans[i].kind) = Some(scans[i].at)

\* C26: within one session each of the two scans runs at most once per
\* calendar day, never on a Saturday or Sunday, and only inside its window
\* (08:00-08:04, 15:15-15:19); the marker is recorded before the scan starts,
\* so that a scan that raised is not run again the same day.
C26_ScansOncePerDay ==
    pc \in {"scheduler", "morning_scan", "afternoon_scan"} =>
        /\ \A i \in 1..Len(scans) :
               /\ weekday(scans[i].at) < 5
               /\ InWindow(scans[i])
        /\ \A i, j \in 1..Len(scans) :
               (i # j /\ scans[i].kind = scans[j].kind)
                   => date(scans[i].at) # date(scans[j].at)
        /\ MarkerRecorded
C26_Witness ==
    /\ pc = "scheduler"
    /\ Len(scans) = 4
    /\ scans[1].kind = "morning" /\ ~scans[1].ok
    /\ scans[2].kind = "afternoon" /\ date(scans[2].at) = date(scans[1].at)
    /\ scans[3].kind = "morning" /\ scans[4].kind = "afternoon"
    /\ results # None /\ ~results[1].raised
    /\ ~results[1].value.morning_ran /\ ~results[1].value.afternoon_ran
    /\ minute(clock) = 19

----------------------------------------------------------------------------
(* Claims on calculate_sell_score, read in the states after CalculateSellScore *)

\* the bands of the module docstring
BandOf(score) ==
    IF score >= 80 THEN "sell now"
    ELSE IF score >= 60 THEN "take profit"
    ELSE "hold"
\* enough bars were fetched, a stop loss is set and the latest close is at or
\* below it
StopLossHit ==
    /\ sell_df # None
    /\ Len(sell_df[1].rows) >= MinBars
    /\ sell_stop_loss # 0
    /\ sell_df[1].rows[Len(sell_df[1].rows)]["close"] <= sell_stop_loss

\* C27 (as claimed): the sell_score lies in 0..100 and the recommendation is
\* the one of its band (80 or more: sell now, 60-79: take profit, 59 or less:
\* hold); when a stop loss is set and the current price is at or below it, the
\* score is 100 and the recommendation is the emergency immediate sale.
C27_SellScore ==
    pc = "sell_returned" =>
        /\ sell_result[1].sell_score \in 0..100
        /\ IF StopLossHit
           THEN /\ sell_result[1].sell_score = 100
                /\ sell_result[1].recommendation = "emergency: sell now"
           ELSE sell_result[1].recommendation = BandOf(sell_result[1].sell_score)

----------------------------------------------------------------------------
(* Claims on monitor.check_signal against the dashboard pipeline *)

BothAnalysed ==
    /\ pc = "fetched_bars"
    /\ monitor_signal # None
    /\ dashboard_signal # None
    /\ dashboard_signal[1].success
    /\ Len(fetched_15m.rows) >= 2
SameSignal ==
    LET m == monitor_signal[1]
        d == dashboard_signal[1].signal[1]
    IN  /\ (m.signal = None) <=> (d.signal = NONE)
        /\ (m.signal = Some("buy")) <=> (d.signal = LONG)
        /\ (m.signal = Some("sell")) <=> (d.signal = SHORT)
        /\ m.signal # None =>
              /\ m.trigger = d.trigger
              /\ m.entry = d.risk_reward[1].entry
              /\ m.stop_loss = d.risk_reward[1].stop_loss
              /\ m.take_profit = d.risk_reward[1].take_profit
\* the latest main close lies exactly 1 % away from its 20 EMA
OnBandEdge ==
    LET latest == Last(add_indicators(fetched_15m))
    IN  100 * Abs(latest["close"] - latest["ema_20"]) = latest["ema_20"]

\* C28 (as claimed): on every pair of frames with at least two main bars,
\* check_signal reports buy / sell / no signal exactly when generate_signal
\* reports long / short / none, with the same trigger name and the same entry,
\* stop_loss and take_profit.
C28_MonitorAgrees == BothAnalysed => SameSignal

----------------------------------------------------------------------------
(* Claims on the ordering of the prices of calculate_risk_reward *)

\* C29: on bars with low <= close <= high, a long has stop_loss <= entry <=
\* take_profit and a short take_profit <= entry <= stop_loss; risk is the
\* distance between entry and stop_loss, never negative, and reward is
\* risk * ratio; when the risk is 0 the position sized on that entry and stop
\* is 0.
C29_OrderedPrices ==
    RrDone =>
        /\ \A i \in 1..Len(df.rows) :
               /\ df.rows[i]["low"] <= df.rows[i]["close"]
               /\ df.rows[i]["close"] <= df.rows[i]["high"]
        /\ is_long => (RR.stop_loss <= RR.entry /\ RR.entry <= RR.take_profit)
        /\ ~is_long => (RR.take_profit <= RR.entry /\ RR.entry <= RR.stop_loss)
        /\ RR.risk >= 0
        /\ RR.risk = Abs(RR.entry - RR.stop_loss)
        /\ RR.reward = RR.risk * rr_ratio
        /\ (pc = "rr_sized" /\ RR.risk = 0) => position_size = 0
\* a long whose latest close is the lowest low of its window: risk 0, the
\* three prices equal, and no position
C29_Witness ==
    /\ pc = "rr_sized" /\ is_long
    /\ WindowSize >= 2
    /\ RR.risk = 0 /\ RR.reward = 0
    /\ RR.entry = RR.stop_loss /\ RR.take_profit = RR.entry
    /\ entry_price = RR.entry /\ stop_loss_price = RR.stop_loss
    /\ position_size = 0

----------------------------------------------------------------------------
(* Claims on the holdings in local storage *)

Held(holdings, ticker) == holdings[IndexOf(holdings, ticker)]
OneEntryPerTicker ==
    pc = "portfolio" =>
        /\ \A i, j \in 1..Len(portfolio) :
               portfolio[i].ticker = portfolio[j].ticker => i = j
        /\ \A i \in 1..Len(portfolio) : portfolio[i].quantity > 0
        /\ portfolio_file = portfolio
\* adding a ticker already held sums the quantities and stores the
\* quantity-weighted average cost
AddSums ==
    (pc = "portfolio" /\ db_call' # db_call
       /\ db_call'[1].op = "add_or_update_holding"
       /\ IndexOf(portfolio, db_call'[1].ticker) # 0) =>
        LET c == db_call'[1]
            old == Held(portfolio, c.ticker)
            new == Held(portfolio', c.ticker)
        IN  /\ Len(portfolio') = Len(portfolio)
            /\ new.quantity = old.quantity + c.quantity
            /\ new.avg_cost.num * old.avg_cost.den * c.avg_cost.den * new.quantity
                 = new.avg_cost.den
                     * (old.quantity * old.avg_cost.num * c.avg_cost.den
                        + c.quantity * c.avg_cost.num * old.avg_cost.den)
\* selling at least the held quantity removes the entry; selling less leaves
\* the rest
SellRemoves ==
    (pc = "portfolio" /\ db_call' # db_call
       /\ db_call'[1].op = "sell_holding"
       /\ IndexOf(portfolio, db_call'[1].ticker) # 0) =>
        LET c == db_call'[1]
            old == Held(portfolio, c.ticker)
        IN  IF c.quantity >= old.quantity
            THEN /\ IndexOf(portfolio', c.ticker) = 0
                 /\ Len(portfolio') = Len(portfolio) - 1
            ELSE Held(portfolio', c.ticker).quantity = old.quantity - c.quantity
AddSumsSellRemoves == AddSums /\ SellRemoves

\* C30: in local storage, after any sequence of add_or_update_holding,
\* sell_holding, delete_holding and update_stop_loss calls with positive
\* quantities, the portfolio has at most one entry per ticker and every entry
\* has quantity > 0; adding a held ticker sums the quantities and stores the
\* quantity-weighted average cost, and selling at least the held quantity
\* removes the entry.
C30_PortfolioEntries == []OneEntryPerTicker /\ [][AddSumsSellRemoves]_vars
\* a ticker bought at different costs (2 at 100 and 1 at 130: average 110)
\* after another one was bought; that other one has since been sold out
C30_Witness ==
    /\ pc = "portfolio"
    /\ Len(portfolio) = 1
    /\ portfolio[1].quantity = 3
    /\ portfolio[1].avg_cost = Frac(110, 1)
    /\ portfolio[1].id = 2
    /\ db_call # None
    /\ db_call[1].op = "sell_holding"

====
